---- MODULE Spec2Model ----
(***************************************************************************)
(* InfraCalendar: the event store (EventsRepository), the validity gate,   *)
(* the extract-and-save pipeline, the batch extraction endpoint and the    *)
(* model gateway (OllamaClient), as state machines.                        *)
(*                                                                         *)
(* Optional values (Python's Optional[...]) are sequences of length 0 or 1 *)
(* so that None and a present value stay comparable: None is <<>>, a       *)
(* present value v is <<v>>.                                               *)
(***************************************************************************)
EXTENDS Integers, Sequences, FiniteSets, TLC

VARIABLES
    events,          \* the events table: a set of rows
    next_event_id,   \* the primary-key sequence of the events table
    now,             \* the wall clock / database clock: [year, month, day]
    op,              \* the last repository call and what it returned
    sessions,        \* concurrent upsert calls, per session: its position,
                     \* arguments, what its lookup found, what it returned
    g_ev1, g_ev2,    \* validity gate / fingerprint inputs (pure functions)
    g_valid, g_h1, g_h1b, g_h2,
    x_resp,          \* chat_page_extract: the HTTP outcome it meets
    x_result,        \* chat_page_extract: what the call did
    c_resp,          \* chat_is_event: the HTTP outcome it meets
    c_result,        \* chat_is_event: what the call did
    t_pc,            \* per task: "idle", or the client method it is inside
    t_calls,         \* per task: calls it has completed
    t_last,          \* per task: how its last call ended
    strategy,        \* the extractor's strategy, chosen at construction
    pc,              \* POST /extractors/extract: idle, loop, done, failed
    pages,           \* the pages fetch_pages returned (page ids, in order)
    idx,             \* the loop's position in pages (1-based)
    events_saved,    \* the loop's counter
    response,        \* the ExtractionResult sent, once the run is done
    extracted,       \* what the last extract_events_async call did
    saved,           \* what the last extract_and_save call did
    upserts,         \* upsert calls issued by the current run
    after_first,     \* per page: its row count after its first completed
                     \* extract_and_save
    f_in,            \* normalizer / formatter call: its argument
    f_now,           \* normalizer / formatter call: the clock it reads
    f_out            \* normalizer / formatter call: what the call did

repoVars == <<events, next_event_id, now, op, sessions>>
gateVars == <<g_ev1, g_ev2, g_valid, g_h1, g_h1b, g_h2>>
clientVars == <<x_resp, x_result, c_resp, c_result>>
taskVars == <<t_pc, t_calls, t_last>>
pipeVars == <<strategy, pc, pages, idx, events_saved, response, extracted,
              saved, upserts, after_first>>
fnVars == <<f_in, f_now, f_out>>
vars == <<events, next_event_id, now, op, sessions, g_ev1, g_ev2, g_valid, g_h1, g_h1b,
          g_h2, x_resp, x_result, c_resp, c_result, t_pc, t_calls, t_last,
          strategy, pc, pages, idx, events_saved, response, extracted, saved,
          upserts, after_first, f_in, f_now, f_out>>

----------------------------------------------------------------------------
(* Optional values *)

None == <<>>

Some(v) == <<v>>

IsNone(o) == o = <<>>

Val(o) == o[1]

\* Python's str(x) inside an f-string: None prints as the text "None".
Str(o) == IF IsNone(o) THEN "None" ELSE Val(o)

----------------------------------------------------------------------------
(* app/domain/event.py: the Event dataclass with its defaults *)

Event ==
    [uid |-> None, dtstamp |-> None, dtstart |-> None, dtend |-> None,
     duration |-> None, summary |-> None, description |-> None,
     location |-> None, url |-> None, geo |-> None, categories |-> <<>>,
     status |-> None, transp |-> None, sequence |-> None, created |-> None,
     last_modified |-> None, organizer |-> None, attendees |-> <<>>,
     attach |-> <<>>, classification |-> None, priority |-> None,
     rrule |-> None, rdate |-> <<>>, exdate |-> <<>>, recurrence_id |-> None,
     tzid |-> None, alarms |-> <<>>, raw |-> None, title |-> None,
     start |-> None]

----------------------------------------------------------------------------
(* app/repositories/events.py *)

\* The minimum description length of EventsRepository._is_valid_event.
RepoMinDescriptionLength == 40

\* A content string that also covers the description.
HashContentWithDescription(event) ==
    Str(event.title) \o "|" \o Str(event.start) \o "|" \o Str(event.dtstart)
        \o "|" \o Str(event.summary) \o "|" \o Str(event.location)
        \o "|" \o Str(event.url) \o "|" \o Str(event.description)

\* The pre-digest content string of _compute_hash.
HashContent(event) ==
    Str(event.title) \o "|" \o Str(event.start) \o "|" \o Str(event.dtstart)
        \o "|" \o Str(event.summary) \o "|" \o Str(event.location)
        \o "|" \o Str(event.url)

\* sha256(content).hexdigest(): a digest of the content string and of
\* nothing else; digest collisions are not modelled.
Sha256Hex(content) == <<"sha256", content>>

_compute_hash(event) == Sha256Hex(HashContent(event))

\* A validity check that forgets to require a start.
_is_valid_event_without_start(oev) ==
    IF IsNone(oev) THEN FALSE
    ELSE LET event == Val(oev) IN
         IF IsNone(event.title) THEN FALSE
         ELSE \/ ~IsNone(event.location)
              \/ /\ ~IsNone(event.description)
                 /\ Len(Val(event.description)) >= 40

\* _is_valid_event takes Optional[Event]: an absent event is None.
_is_valid_event(oev) ==
    IF IsNone(oev) THEN FALSE
    ELSE LET event == Val(oev) IN
         IF IsNone(event.title) \/ IsNone(event.start) THEN FALSE
         ELSE LET has_location == ~IsNone(event.location)
                  has_description ==
                      /\ ~IsNone(event.description)
                      /\ Len(Val(event.description)) >= RepoMinDescriptionLength
              IN has_location \/ has_description

\* `x if x else None` for the list-valued columns.
ListOrNone(l) == IF l = <<>> THEN None ELSE Some(l)

\* _domain_to_db: the column values a candidate gives a row. event_id and
\* the server-side timestamps are not set here.
_domain_to_db(event, page_id, extraction_version) ==
    [page_id |-> page_id,
     uid |-> event.uid, dtstamp |-> event.dtstamp, dtstart |-> event.dtstart,
     dtend |-> event.dtend, duration |-> event.duration,
     summary |-> event.summary, description |-> event.description,
     location |-> event.location, url |-> event.url, geo |-> event.geo,
     categories |-> ListOrNone(event.categories),
     status |-> event.status, transp |-> event.transp,
     sequence |-> event.sequence, created |-> event.created,
     last_modified |-> event.last_modified, organizer |-> event.organizer,
     attendees |-> ListOrNone(event.attendees),
     attach |-> ListOrNone(event.attach),
     classification |-> event.classification, priority |-> event.priority,
     rrule |-> event.rrule, rdate |-> ListOrNone(event.rdate),
     exdate |-> ListOrNone(event.exdate),
     recurrence_id |-> event.recurrence_id, tzid |-> event.tzid,
     alarms |-> ListOrNone(event.alarms), raw |-> event.raw,
     title |-> event.title, start |-> event.start,
     extraction_version |-> extraction_version,
     content_hash |-> _compute_hash(event),
     is_valid |-> _is_valid_event(Some(event))]

\* The columns the database sets itself (app/db/models.py).
ServerColumns == {"event_id", "extracted_at", "created_at", "updated_at"}

\* A new row: the candidate's columns, the next primary key, and the three
\* server_default=func.now() timestamps.
NewRow(db_event, id, t) ==
    [k \in (DOMAIN db_event) \cup ServerColumns |->
        IF k = "event_id" THEN id
        ELSE IF k \in ServerColumns THEN t
        ELSE db_event[k]]

\* A lookup that finds nothing: every upsert would insert.
MatchingNothing(rows, page_id, content_hash) == {}

\* A lookup by hash alone, across the pages.
MatchingAnyPage(rows, page_id, content_hash) ==
    {r \in rows : r.content_hash = content_hash}

\* The select of upsert_event_by_hash: rows of this page with this hash.
Matching(rows, page_id, content_hash) ==
    {r \in rows : r.page_id = page_id /\ r.content_hash = content_hash}

\* .scalars().first(): the query has no ORDER BY, so any matching row.
IsFirst(r, rows, page_id, content_hash) ==
    r \in Matching(rows, page_id, content_hash)

\* The keys of db_event.__dict__ the update loop copies: every constructor
\* keyword, none of them event_id or created_at.
CopiedKeys(db_event) == (DOMAIN db_event) \ {"event_id", "created_at"}

\* An update loop that does not exclude created_at and copies only part of
\* the candidate.
UpdatedRowSloppy(existing, db_event, t) ==
    [existing EXCEPT !.created_at = t, !.updated_at = t,
                     !.description = db_event.description]

\* The update branch: setattr for every copied key; onupdate=func.now()
\* refreshes updated_at when the flush writes a changed column.
UpdatedRow(existing, db_event, t) ==
    LET copied == [k \in DOMAIN existing |->
                      IF k \in CopiedKeys(db_event) THEN db_event[k]
                      ELSE existing[k]]
    IN IF copied = existing THEN existing
       ELSE [copied EXCEPT !.updated_at = t]

----------------------------------------------------------------------------
(* Text as sequences of characters, for the code that searches, trims and
   lower-cases replies. *)

IsSpace(c) == c \in {" ", "\n", "\t"}

RECURSIVE LStrip(_)
LStrip(s) == IF s # <<>> /\ IsSpace(Head(s)) THEN LStrip(Tail(s)) ELSE s

RECURSIVE RStrip(_)
RStrip(s) ==
    IF s # <<>> /\ IsSpace(s[Len(s)]) THEN RStrip(SubSeq(s, 1, Len(s) - 1))
    ELSE s

\* str.strip()
Strip(s) == RStrip(LStrip(s))

LowerLetters ==
    <<"a", "b", "c", "d", "e", "f", "g", "h", "i", "j", "k", "l", "m",
      "n", "o", "p", "q", "r", "s", "t", "u", "v", "w", "x", "y", "z">>

UpperLetters ==
    <<"A", "B", "C", "D", "E", "F", "G", "H", "I", "J", "K", "L", "M",
      "N", "O", "P", "Q", "R", "S", "T", "U", "V", "W", "X", "Y", "Z">>

LowerChar(c) ==
    IF \E i \in 1..26 : UpperLetters[i] = c
    THEN LowerLetters[CHOOSE i \in 1..26 : UpperLetters[i] = c]
    ELSE c

UpperChar(c) ==
    IF \E i \in 1..26 : LowerLetters[i] = c
    THEN UpperLetters[CHOOSE i \in 1..26 : LowerLetters[i] = c]
    ELSE c

\* str.upper()
Upper(s) == [i \in 1..Len(s) |-> UpperChar(s[i])]

\* str.lower()
Lower(s) == [i \in 1..Len(s) |-> LowerChar(s[i])]

\* str.find(c): the 0-based index of the first occurrence, or -1.
Find(s, c) ==
    IF \E i \in 1..Len(s) : s[i] = c
    THEN (CHOOSE i \in 1..Len(s) :
              s[i] = c /\ \A j \in 1..(i - 1) : s[j] # c) - 1
    ELSE -1

\* str.rfind(c): the 0-based index of the last occurrence, or -1.
RFind(s, c) ==
    IF \E i \in 1..Len(s) : s[i] = c
    THEN (CHOOSE i \in 1..Len(s) :
              s[i] = c /\ \A j \in (i + 1)..Len(s) : s[j] # c) - 1
    ELSE -1

\* s[a:b] for 0 <= a <= b <= len(s)
Slice(s, a, b) == SubSeq(s, a + 1, b)

\* The sequences over `alphabet` of length at most n.
SeqsUpTo(alphabet, n) == UNION {[1..k -> alphabet] : k \in 0..n}

----------------------------------------------------------------------------
(* json.loads on a span that starts with "{": the span decodes exactly when
   it is one JSON object. A reply is written over the characters "{", "}",
   ",", "m" (one "key": scalar member; followed by an object, a member whose
   value is that object) and "x" (any other text). *)

RECURSIVE JsonObjectEnd(_, _)
RECURSIVE JsonMembersEnd(_, _)

\* The index after the object that starts at s[i], or 0 when there is none.
JsonObjectEnd(s, i) ==
    IF i > Len(s) \/ s[i] # "{" THEN 0
    ELSE IF i + 1 <= Len(s) /\ s[i + 1] = "}" THEN i + 2
    ELSE LET j == JsonMembersEnd(s, i + 1)
         IN IF j # 0 /\ j <= Len(s) /\ s[j] = "}" THEN j + 1 ELSE 0

\* The index after the member list that starts at s[i], or 0.
JsonMembersEnd(s, i) ==
    IF i > Len(s) \/ s[i] # "m" THEN 0
    ELSE LET v == IF i + 1 <= Len(s) /\ s[i + 1] = "{"
                  THEN JsonObjectEnd(s, i + 1) ELSE i + 1
         IN IF v = 0 THEN 0
            ELSE IF v <= Len(s) /\ s[v] = "," THEN JsonMembersEnd(s, v + 1)
            ELSE v

\* json.loads(span) returns (a dict) rather than raising JSONDecodeError.
JsonDecodes(span) == JsonObjectEnd(span, 1) = Len(span) + 1

----------------------------------------------------------------------------
(* app/clients/ollama_client.py *)

\* What requests.post and resp.json()["message"]["content"] can give:
\*   connection_error, timeout: requests.post raises;
\*   not_json: the HTTP body is not JSON, resp.json() raises;
\*   no_content: the body has no message.content, the subscript raises;
\*   ok: content is the model's reply, data the members of the JSON
\*       object in it (read only when the span decodes).
HttpKinds == {"connection_error", "timeout", "not_json", "no_content", "ok"}

NoData ==
    [summary |-> None, description |-> None, dtstart |-> None,
     dtend |-> None, duration |-> None, location |-> None, rrule |-> None,
     categories |-> <<>>]

HttpFailure(kind) == [kind |-> kind, content |-> <<>>, data |-> NoData]

HttpOk(content, data) == [kind |-> "ok", content |-> content, data |-> data]

\* The exception a failed exchange raises in the caller.
HttpError(resp) ==
    CASE resp.kind = "connection_error" -> "ConnectionError"
      [] resp.kind = "timeout" -> "Timeout"
      [] resp.kind = "not_json" -> "JSONDecodeError"
      [] resp.kind = "no_content" -> "KeyError"

Returned(v) == [status |-> "returned", value |-> v, error |-> ""]

Raised(e) == [status |-> "raised", value |-> None, error |-> e]

NotCalled == [status |-> "not called", value |-> None, error |-> ""]

RECURSIVE Concat(_)
\* The characters of a sequence as one string.
Concat(s) == IF s = <<>> THEN "" ELSE Head(s) \o Concat(Tail(s))

\* raw=content: the stripped reply as text.
ContentText(content) == Some(Concat(content))

\* chat_page_extract(page): the request, the brace span, json.loads outside
\* the try block, and the Event built from the decoded members.
chat_page_extract(page, resp) ==
    IF resp.kind # "ok" THEN Raised(HttpError(resp))
    ELSE LET content == Strip(resp.content)
             start == Find(content, "{")
             end == RFind(content, "}")
         IN IF start = -1 \/ end = -1 \/ end <= start THEN Returned(None)
            ELSE IF ~JsonDecodes(Slice(content, start, end + 1))
                 THEN Raised("JSONDecodeError")
            ELSE Returned(Some(
                     [Event EXCEPT !.uid = None, !.dtstamp = None,
                                   !.dtstart = resp.data.dtstart,
                                   !.dtend = resp.data.dtend,
                                   !.duration = resp.data.duration,
                                   !.summary = resp.data.summary,
                                   !.description = resp.data.description,
                                   !.location = resp.data.location,
                                   !.url = page.page_url,
                                   !.categories = resp.data.categories,
                                   !.rrule = resp.data.rrule,
                                   !.title = resp.data.summary,
                                   !.start = resp.data.dtstart,
                                   !.raw = ContentText(content)]))

\* chat_is_event(page): the request, then strip().lower() == "true".
chat_is_event(page, resp) ==
    IF resp.kind # "ok" THEN Raised(HttpError(resp))
    ELSE LET result == Lower(Strip(resp.content))
         IN Returned(Some(result = <<"t", "r", "u", "e">>))

----------------------------------------------------------------------------
(* Bounds of the model *)

\* Page ids 1..NumPages.
NumPages == 2

\* Rows the events table may hold before inserts are no longer explored.
MaxEvents == 2

\* The clock starts at StartYear-StartMonth-StartDay and is explored up to
\* MaxDaysAhead days and MaxYearsAhead years later.
MaxDaysAhead == 1

MaxYearsAhead == 1

\* Longest model reply handed to chat_page_extract, in characters.
MaxContentLen == 4

\* Longest model reply handed to chat_is_event, in characters.
MaxReplyLen == 5

\* Tasks that use the shared client at the same time, and calls per task.
NumTasks == 3

MaxCallsPerTask == 2

StartYear == 2026

StartMonth == 1

StartDay == 10

PageIds == 1..NumPages

\* Upsert calls that run at the same time, each in a session of its own.
NumSessions == 2

Sessions == 1..NumSessions

StartDate == [year |-> StartYear, month |-> StartMonth, day |-> StartDay]

\* Time passes: the next day.
TickDay ==
    /\ now.day < StartDay + MaxDaysAhead
    /\ now' = [now EXCEPT !.day = @ + 1]
    /\ UNCHANGED <<events, next_event_id, op, sessions>>

----------------------------------------------------------------------------
(* Candidates handed to the repository *)

Desc5 == "Hike!"

Desc39 == "Join us for a family hike at the lake.."

Desc40 == "Join us for a family hike at the lake..."

Desc45 == "Join us for a family hike around the lake now"

Candidate(t, s, loc, desc, raw, cats) ==
    [Event EXCEPT !.title = t, !.summary = t, !.start = s, !.dtstart = s,
                  !.location = loc, !.description = desc, !.raw = raw,
                  !.categories = cats, !.url = Some("https://example.com")]

\* Two titles (two fingerprints per page), the first in two versions that
\* differ only outside the fingerprint tuple.
RepoCandidates ==
    {Candidate(Some("Fun Hike"), Some("2026-01-10"), None,
               None, Some("r1"), <<>>),
     Candidate(Some("Fun Hike"), Some("2026-01-10"), None,
               Some(Desc45), Some("r2"), <<"outdoors">>),
     Candidate(Some("Fair"), Some("2026-01-10"), None,
               None, Some("r1"), <<>>)}

----------------------------------------------------------------------------
(* EventsRepository operations *)

NoOp == [name |-> "none", page_id |-> 0, event |-> Event, ret |-> 0]

\* upsert_event_by_hash(event, page_id): one session, one commit.
upsert_event_by_hash(event, page_id, extraction_version) ==
    LET content_hash == _compute_hash(event)
        db_event == _domain_to_db(event, page_id, extraction_version)
    IN IF Matching(events, page_id, content_hash) # {}
       THEN \E existing \in events :
               /\ IsFirst(existing, events, page_id, content_hash)
               /\ events' = (events \ {existing})
                                \cup {UpdatedRow(existing, db_event, now)}
               /\ next_event_id' = next_event_id
               /\ op' = [name |-> "upsert", page_id |-> page_id,
                         event |-> event, ret |-> existing.event_id]
               /\ UNCHANGED sessions
       ELSE /\ Cardinality(events) < MaxEvents
            /\ events' = events \cup {NewRow(db_event, next_event_id, now)}
            /\ next_event_id' = next_event_id + 1
            /\ op' = [name |-> "upsert", page_id |-> page_id,
                      event |-> event, ret |-> next_event_id]
            /\ UNCHANGED sessions

Upsert ==
    /\ \E event \in RepoCandidates, page_id \in PageIds :
           upsert_event_by_hash(event, page_id, None)
    /\ UNCHANGED now

\* A session no call has opened yet.
SessionIdle ==
    [pc |-> "idle", event |-> Event, page_id |-> 0, existing |-> None,
     ret |-> 0]

RepoIdle ==
    /\ events = {}
    /\ next_event_id = 1
    /\ now = StartDate
    /\ op = NoOp
    /\ sessions = [s \in Sessions |-> SessionIdle]

GateIdle ==
    /\ g_ev1 = None /\ g_ev2 = None
    /\ g_valid = None /\ g_h1 = None /\ g_h1b = None /\ g_h2 = None

Tasks == 1..NumTasks

ClientIdle ==
    /\ x_resp = HttpFailure("timeout") /\ x_result = NotCalled
    /\ c_resp = HttpFailure("timeout") /\ c_result = NotCalled

TasksIdle ==
    /\ t_pc = [t \in Tasks |-> "idle"]
    /\ t_calls = [t \in Tasks |-> 0]
    /\ t_last = [t \in Tasks |-> "none"]

NoResponse == [total_pages |-> -1, events_saved |-> -1]

PipeIdle ==
    /\ strategy = "model"
    /\ pc = "idle"
    /\ pages = <<>>
    /\ idx = 1
    /\ events_saved = 0
    /\ response = NoResponse
    /\ extracted = NotCalled
    /\ saved = NotCalled
    /\ upserts = 0
    /\ after_first = [p \in PageIds |-> None]

\* The clock read by datetime.now() / datetime.utcnow(), to the hour.
StartTime ==
    [year |-> StartYear, month |-> StartMonth, day |-> StartDay, hour |-> 12]

FnIdle ==
    /\ f_in = None
    /\ f_now = StartTime
    /\ f_out = NotCalled

SpecRepoInit == RepoIdle /\ GateIdle /\ ClientIdle /\ TasksIdle /\ PipeIdle /\ FnIdle

SpecRepoNext ==
    \/ Upsert /\ UNCHANGED <<gateVars, clientVars, taskVars, pipeVars, fnVars>>
    \/ TickDay /\ UNCHANGED <<gateVars, clientVars, taskVars, pipeVars, fnVars>>

SpecRepo == SpecRepoInit /\ [][SpecRepoNext]_vars

----------------------------------------------------------------------------
(* The validity check and the fingerprint as pure functions: the inputs are
   drawn at the start, the actions call the functions. *)

GateDescriptions ==
    {None, Some(Desc5), Some(Desc39), Some(Desc40), Some(Desc45)}

\* Candidates in which title, summary, start and location are each present
\* or absent, with descriptions around the minimum length; categories are
\* set when a description is.
GateCandidates ==
    {[Event EXCEPT !.title = t, !.summary = sm, !.start = st, !.dtstart = st,
                   !.location = loc, !.description = d,
                   !.raw = IF IsNone(d) THEN Some("r1") ELSE Some("r2"),
                   !.categories = IF IsNone(d) THEN <<>> ELSE <<"outdoors">>,
                   !.url = Some("https://example.com")] :
        t \in {None, Some("Fun Hike")}, sm \in {None, Some("Fun Hike")},
        st \in {None, Some("2026-01-10")}, loc \in {None, Some("Park")},
        d \in GateDescriptions}

\* Optional[Event]: a candidate, or no candidate.
GateInputs == {None} \cup {Some(e) : e \in GateCandidates}

SpecGateInit ==
    /\ g_ev1 \in GateInputs
    /\ g_ev2 \in GateInputs
    /\ g_valid = None /\ g_h1 = None /\ g_h1b = None /\ g_h2 = None
    /\ RepoIdle /\ ClientIdle /\ TasksIdle /\ PipeIdle /\ FnIdle

\* self._is_valid_event(event)
CallIsValid ==
    /\ g_valid' = Some(_is_valid_event(g_ev1))
    /\ UNCHANGED <<g_ev1, g_ev2, g_h1, g_h1b, g_h2>>

\* self._compute_hash(event), a first and a second time on the same event.
CallComputeHash ==
    /\ ~IsNone(g_ev1)
    /\ \/ IsNone(g_h1) /\ g_h1' = Some(_compute_hash(Val(g_ev1)))
                        /\ UNCHANGED g_h1b
       \/ ~IsNone(g_h1) /\ g_h1b' = Some(_compute_hash(Val(g_ev1)))
                         /\ UNCHANGED g_h1
    /\ UNCHANGED <<g_ev1, g_ev2, g_valid, g_h2>>

\* self._compute_hash(other)
CallComputeHashOther ==
    /\ ~IsNone(g_ev2)
    /\ g_h2' = Some(_compute_hash(Val(g_ev2)))
    /\ UNCHANGED <<g_ev1, g_ev2, g_valid, g_h1, g_h1b>>

SpecGateNext ==
    \/ CallIsValid /\ UNCHANGED <<repoVars, clientVars, taskVars, pipeVars, fnVars>>
    \/ CallComputeHash /\ UNCHANGED <<repoVars, clientVars, taskVars, pipeVars, fnVars>>
    \/ CallComputeHashOther /\ UNCHANGED <<repoVars, clientVars, taskVars, pipeVars, fnVars>>

SpecGate == SpecGateInit /\ [][SpecGateNext]_vars

----------------------------------------------------------------------------
(* Claims about the validity check and the fingerprint *)

\* C5: is_valid is false for an absent candidate and for one without title
\* or without start; for every other candidate it is true exactly when the
\* location is present or the description is present and at least the
\* configured minimum long. Without location, a 5-character description is
\* invalid and a 45-character description is valid.
C5_IsValidContract ==
    ~IsNone(g_valid) =>
        /\ Val(g_valid) =
              IF IsNone(g_ev1) THEN FALSE
              ELSE IF IsNone(Val(g_ev1).title) \/ IsNone(Val(g_ev1).start)
                   THEN FALSE
              ELSE \/ ~IsNone(Val(g_ev1).location)
                   \/ /\ ~IsNone(Val(g_ev1).description)
                      /\ Len(Val(Val(g_ev1).description))
                            >= RepoMinDescriptionLength
        /\ (/\ ~IsNone(g_ev1)
            /\ ~IsNone(Val(g_ev1).title) /\ ~IsNone(Val(g_ev1).start)
            /\ IsNone(Val(g_ev1).location))
              => /\ Len(Str(Val(g_ev1).description)) = 5 => ~Val(g_valid)
                 /\ Len(Str(Val(g_ev1).description)) = 45 => Val(g_valid)

\* The check was called on a candidate with title and start, no location
\* and the 45-character description, and accepted it.
C5_Witness ==
    /\ g_valid = Some(TRUE)
    /\ ~IsNone(g_ev1)
    /\ ~IsNone(Val(g_ev1).title) /\ ~IsNone(Val(g_ev1).start)
    /\ IsNone(Val(g_ev1).location)
    /\ Val(g_ev1).description = Some(Desc45)

SixTuple(e) == <<e.title, e.start, e.dtstart, e.summary, e.location, e.url>>

\* C6: two candidates that agree on (title, start, dtstart, summary,
\* location, url) get the same fingerprint whatever their other fields are,
\* and a second call on the same candidate returns the same fingerprint.
C6_FingerprintOfSixFieldsOnly ==
    /\ (/\ ~IsNone(g_h1) /\ ~IsNone(g_h2)
        /\ SixTuple(Val(g_ev1)) = SixTuple(Val(g_ev2))) => g_h1 = g_h2
    /\ (~IsNone(g_h1) /\ ~IsNone(g_h1b)) => g_h1 = g_h1b

\* Both fingerprints are computed for two candidates that agree on the six
\* fields and differ in description, raw payload and categories.
C6_Witness ==
    /\ ~IsNone(g_h1) /\ ~IsNone(g_h1b) /\ ~IsNone(g_h2)
    /\ SixTuple(Val(g_ev1)) = SixTuple(Val(g_ev2))
    /\ Val(g_ev1).description # Val(g_ev2).description
    /\ Val(g_ev1).raw # Val(g_ev2).raw
    /\ Val(g_ev1).categories # Val(g_ev2).categories

----------------------------------------------------------------------------
(* The two client methods as functions of the HTTP outcome they meet. *)

SamplePage ==
    [page_id |-> 1, page_url |-> Some("https://example.com/hike"),
     plain_text |-> <<>>]

SampleData ==
    [NoData EXCEPT !.summary = Some("Fun Hike"),
                   !.dtstart = Some("2026-01-10T10:00:00"),
                   !.location = Some("Sippo Lake Park")]

HttpFailures ==
    {HttpFailure(k) : k \in HttpKinds \ {"ok"}}

ExtractResponses ==
    HttpFailures \cup
    {HttpOk(c, SampleData) :
        c \in SeqsUpTo({"{", "}", "m", ",", "x"}, MaxContentLen)}

ClassifyResponses ==
    HttpFailures \cup
    {HttpOk(c, NoData) :
        c \in SeqsUpTo({" ", "t", "T", "r", "u", "e"}, MaxReplyLen)}

SpecExtractInit ==
    /\ x_resp \in ExtractResponses
    /\ x_result = NotCalled
    /\ c_resp = HttpFailure("timeout") /\ c_result = NotCalled
    /\ RepoIdle /\ GateIdle /\ TasksIdle /\ PipeIdle /\ FnIdle

CallChatPageExtract ==
    /\ x_result' = chat_page_extract(SamplePage, x_resp)
    /\ UNCHANGED <<x_resp, c_resp, c_result>>

SpecExtractNext ==
    CallChatPageExtract /\ UNCHANGED <<repoVars, gateVars, taskVars, pipeVars, fnVars>>

SpecExtract == SpecExtractInit /\ [][SpecExtractNext]_vars

SpecClassifyInit ==
    /\ c_resp \in ClassifyResponses
    /\ c_result = NotCalled
    /\ x_resp = HttpFailure("timeout") /\ x_result = NotCalled
    /\ RepoIdle /\ GateIdle /\ TasksIdle /\ PipeIdle /\ FnIdle

CallChatIsEvent ==
    /\ c_result' = chat_is_event(SamplePage, c_resp)
    /\ UNCHANGED <<c_resp, x_resp, x_result>>

SpecClassifyNext ==
    CallChatIsEvent /\ UNCHANGED <<repoVars, gateVars, taskVars, pipeVars, fnVars>>

SpecClassify == SpecClassifyInit /\ [][SpecClassifyNext]_vars

----------------------------------------------------------------------------
(* The shared client under concurrent callers. The container builds one
   OllamaClient (a Singleton) for every request; each task is a caller that
   is inside chat_is_event or chat_page_extract between the moment
   requests.post is issued and the moment it returns or raises. __init__
   creates no permit and neither method acquires one. *)

\* The permit count the design asks of the gateway.
Permits == 2

ClientMethods == {"chat_is_event", "chat_page_extract"}

\* The client's methods up to requests.post: the request goes out.
IssueRequest(t, method) ==
    /\ t_pc[t] = "idle"
    /\ t_calls[t] < MaxCallsPerTask
    /\ t_pc' = [t_pc EXCEPT ![t] = method]
    /\ UNCHANGED <<t_calls, t_last>>

\* requests.post returns, or raises (connection error, timeout after 120 s).
FinishRequest(t, outcome) ==
    /\ t_pc[t] \in ClientMethods
    /\ t_pc' = [t_pc EXCEPT ![t] = "idle"]
    /\ t_calls' = [t_calls EXCEPT ![t] = @ + 1]
    /\ t_last' = [t_last EXCEPT ![t] = outcome]

\* The outbound model calls in flight.
InFlight == Cardinality({t \in Tasks : t_pc[t] \in ClientMethods})

SpecPermitsInit ==
    TasksIdle /\ RepoIdle /\ GateIdle /\ ClientIdle /\ PipeIdle /\ FnIdle

SpecPermitsNext ==
    \/ \E t \in Tasks, m \in ClientMethods :
          /\ IssueRequest(t, m)
          /\ UNCHANGED <<repoVars, gateVars, clientVars, pipeVars, fnVars>>
    \/ \E t \in Tasks, o \in {"returned", "raised"} :
          /\ FinishRequest(t, o)
          /\ UNCHANGED <<repoVars, gateVars, clientVars, pipeVars, fnVars>>

SpecPermits == SpecPermitsInit /\ [][SpecPermitsNext]_vars

\* C10 (as claimed): with the client shared by concurrent tasks, the
\* outbound model calls in flight never exceed the permit count.
C10_InFlightAtMostPermits == InFlight <= Permits

----------------------------------------------------------------------------
(* Claims about the client methods *)

\* The reply has a '{' and a '}' with the last '}' after the first '{'.
HasBraceSpan(c) ==
    \E i, j \in 1..Len(c) : i < j /\ c[i] = "{" /\ c[j] = "}"

\* The reply from its first '{' to its last '}'.
BraceSpan(c) ==
    LET i == CHOOSE i \in 1..Len(c) :
                 c[i] = "{" /\ \A k \in 1..(i - 1) : c[k] # "{"
        j == CHOOSE j \in 1..Len(c) :
                 c[j] = "}" /\ \A k \in (j + 1)..Len(c) : c[k] # "}"
    IN SubSeq(c, i, j)

\* C8 (as claimed): for every reply without a brace span, and for every
\* reply whose span does not decode, chat_page_extract returns none and
\* raises nothing.
C8_UndecodableReplyGivesNone ==
    (/\ x_result.status # "not called"
     /\ x_resp.kind = "ok"
     /\ \/ ~HasBraceSpan(x_resp.content)
        \/ ~JsonDecodes(BraceSpan(x_resp.content)))
        => x_result = Returned(None)

\* C9 (as claimed): chat_is_event returns true exactly when the trimmed,
\* lower-cased reply is "true", returns false for any other reply and for
\* any transport or parse failure, and never raises.
C9_ClassifierNeverRaises ==
    c_result.status # "not called" =>
        /\ c_result.status = "returned"
        /\ c_result.value =
              Some(/\ c_resp.kind = "ok"
                   /\ Lower(Strip(c_resp.content)) = <<"t", "r", "u", "e">>)

----------------------------------------------------------------------------
(* Claims about the repository *)

\* The rows of `rows` that a call upsert(event, page_id) would find.
SameFingerprint(rows, event, page_id) ==
    {r \in rows : /\ r.page_id = page_id
                  /\ r.content_hash = <<"sha256", HashContent(event)>>}

\* A step in which upsert_event_by_hash ran and changed the table or its
\* return value.
UpsertStep == op'.name = "upsert" /\ <<events, op>>' # <<events, op>>

NoDuplicateFingerprint ==
    \A r1, r2 \in events :
        (r1.page_id = r2.page_id /\ r1.content_hash = r2.content_hash)
            => r1 = r2

UpsertUpdatesOrInsertsOne ==
    UpsertStep =>
        LET found == SameFingerprint(events, op'.event, op'.page_id)
        IN IF found # {}
           THEN /\ Cardinality(events') = Cardinality(events)
                /\ \E r \in found : op'.ret = r.event_id
           ELSE /\ Cardinality(events') = Cardinality(events) + 1
                /\ \E r \in events' \ events :
                       /\ op'.ret = r.event_id
                       /\ events' = events \cup {r}

\* C1: after any sequence of upserts executed one at a time the table never
\* holds two rows with the same (page_id, fingerprint); an upsert that finds
\* a row of that page with the same fingerprint returns that row's id and
\* leaves the row count as it was, and any other upsert inserts exactly one
\* row.
C1_NoDuplicatePerPageFingerprint ==
    []NoDuplicateFingerprint /\ [][UpsertUpdatesOrInsertsOne]_vars

\* An upsert has just updated a row in place while another row exists.
C1_Witness ==
    /\ op.name = "upsert"
    /\ Cardinality(events) >= 2
    /\ \E r \in events : r.event_id = op.ret /\ r.updated_at # r.created_at

UpdateKeepsIdentityRefreshesFields ==
    (UpsertStep /\ SameFingerprint(events, op'.event, op'.page_id) # {}) =>
        LET derived == _domain_to_db(op'.event, op'.page_id, None)
        IN \E old \in SameFingerprint(events, op'.event, op'.page_id) :
           \E new \in events' :
              /\ events' \ {new} = events \ {old}
              /\ new.event_id = old.event_id
              /\ new.created_at = old.created_at
              /\ \A k \in DOMAIN derived : new[k] = derived[k]
              /\ new.raw = op'.event.raw
              /\ new.description = op'.event.description
              /\ new.categories = ListOrNone(op'.event.categories)
              /\ new.is_valid = _is_valid_event(Some(op'.event))

\* C2: when upsert finds a row of the page with the same fingerprint, the
\* row keeps its event_id and created_at, and every column derived from the
\* candidate (raw, categories, description, is_valid and the rest) holds the
\* value derived from the new candidate.
C2_UpdateKeepsIdentity == [][UpdateKeepsIdentityRefreshesFields]_vars

\* A row created earlier has just been refreshed from a candidate with a
\* different raw payload, description, categories and validity.
C2_Witness ==
    /\ op.name = "upsert"
    /\ \E r \in events :
          /\ r.event_id = op.ret
          /\ r.created_at # now
          /\ r.updated_at = now
          /\ r.raw = Some("r2")
          /\ r.is_valid

----------------------------------------------------------------------------
(* Page text. A text is a sequence of lines and a line a sequence of tokens;
   a token carries its characters (s) and what the regular expressions and
   dateutil make of it:
     word   any other word
     month  a month name (a = the month)
     num    a number (a): a day of the month up to 31, a year from 1000
     time   a clock time such as "10:00 AM" (a = hour, b = minute)
     iso    a YYYY-MM-DD date (a = year, b = month, c = day)                *)

Word(s) == [s |-> s, k |-> "word", a |-> 0, b |-> 0, c |-> 0]

MonthName(s, m) == [s |-> s, k |-> "month", a |-> m, b |-> 0, c |-> 0]

Number(s, n) == [s |-> s, k |-> "num", a |-> n, b |-> 0, c |-> 0]

ClockTime(s, h, mi) == [s |-> s, k |-> "time", a |-> h, b |-> mi, c |-> 0]

IsoDate(s, y, m, d) == [s |-> s, k |-> "iso", a |-> y, b |-> m, c |-> d]

RECURSIVE JoinTokens(_)
\* The characters of a token sequence, single spaces between tokens.
JoinTokens(toks) ==
    IF toks = <<>> THEN ""
    ELSE IF Len(toks) = 1 THEN toks[1].s
    ELSE toks[1].s \o " " \o JoinTokens(Tail(toks))

RECURSIVE JoinLines(_)
\* "\n".join(lines)
JoinLines(ls) ==
    IF ls = <<>> THEN ""
    ELSE IF Len(ls) = 1 THEN JoinTokens(ls[1])
    ELSE JoinTokens(ls[1]) \o "\n" \o JoinLines(Tail(ls))

\* The first token of `toks` whose kind is in `kinds`, if any.
FirstOfKind(toks, kinds) ==
    IF \E i \in 1..Len(toks) : toks[i].k \in kinds
    THEN Some(toks[CHOOSE i \in 1..Len(toks) :
                       /\ toks[i].k \in kinds
                       /\ \A j \in 1..(i - 1) : toks[j].k \notin kinds])
    ELSE None

----------------------------------------------------------------------------
(* dateutil.parser.parse(text, fuzzy=True) and datetime.isoformat() *)

IsLeap(y) == (y % 4 = 0 /\ y % 100 # 0) \/ y % 400 = 0

DaysInMonth(y, m) ==
    IF m = 2 THEN (IF IsLeap(y) THEN 29 ELSE 28)
    ELSE IF m \in {4, 6, 9, 11} THEN 30 ELSE 31

Pad2(n) == IF n < 10 THEN "0" \o ToString(n) ELSE ToString(n)

\* datetime.isoformat() of a naive datetime without microseconds.
IsoFormat(y, m, d, h, mi) ==
    ToString(y) \o "-" \o Pad2(m) \o "-" \o Pad2(d) \o "T" \o Pad2(h)
        \o ":" \o Pad2(mi) \o ":00"

\* What the parser reads from the tokens (the texts carry at most one
\* year, one month, one day and one time each).
ParsedYear(toks) ==
    LET iso == FirstOfKind(toks, {"iso"})
        yr == {i \in 1..Len(toks) : toks[i].k = "num" /\ toks[i].a >= 1000}
    IN IF ~IsNone(iso) THEN Some(Val(iso).a)
       ELSE IF yr # {} THEN Some(toks[CHOOSE i \in yr : TRUE].a)
       ELSE None

ParsedMonth(toks) ==
    LET iso == FirstOfKind(toks, {"iso"})
        mo == FirstOfKind(toks, {"month"})
    IN IF ~IsNone(iso) THEN Some(Val(iso).b)
       ELSE IF ~IsNone(mo) THEN Some(Val(mo).a)
       ELSE None

ParsedDay(toks) ==
    LET iso == FirstOfKind(toks, {"iso"})
        dy == {i \in 1..Len(toks) : toks[i].k = "num" /\ toks[i].a <= 31}
    IN IF ~IsNone(iso) THEN Some(Val(iso).c)
       ELSE IF dy # {} THEN Some(toks[CHOOSE i \in dy : TRUE].a)
       ELSE None

\* parse(text, fuzzy=True): fields the text does not give come from the
\* default, today at midnight; a default day beyond the month's end falls
\* back to the month's last day. No date or time in the text, or a day the
\* month does not have, raises.
DateutilParse(toks, today) ==
    LET py == ParsedYear(toks)
        pm == ParsedMonth(toks)
        pd == ParsedDay(toks)
        pt == FirstOfKind(toks, {"time"})
        y == IF IsNone(py) THEN today.year ELSE Val(py)
        m == IF IsNone(pm) THEN today.month ELSE Val(pm)
        last == DaysInMonth(y, m)
        d == IF IsNone(pd)
             THEN (IF today.day > last THEN last ELSE today.day)
             ELSE Val(pd)
    IN IF IsNone(py) /\ IsNone(pm) /\ IsNone(pd) /\ IsNone(pt)
       THEN [ok |-> FALSE, iso |-> ""]
       ELSE IF d < 1 \/ d > last THEN [ok |-> FALSE, iso |-> ""]
       ELSE [ok |-> TRUE,
             iso |-> IsoFormat(y, m, d,
                               IF IsNone(pt) THEN 0 ELSE Val(pt).a,
                               IF IsNone(pt) THEN 0 ELSE Val(pt).b)]

----------------------------------------------------------------------------
(* app/services/page_event_extractor.py *)

\* _try_parse_datetime(text): the ISO string, or None for an empty text and
\* for any exception of the parser.
_try_parse_datetime(toks, today) ==
    IF toks = <<>> THEN None
    ELSE LET r == DateutilParse(toks, today)
         IN IF r.ok THEN Some(r.iso) ELSE None

\* DATE_LINE_RE.search(line): the first ISO date or month word.
DateMatch(line) == FirstOfKind(line, {"iso", "month"})

\* TIME_RE.search(line): the first clock time.
TimeMatch(line) == FirstOfKind(line, {"time"})

NonEmptyLine(line) == line # <<>>

\* The candidate of one date line, without the raw text as last resort.
DateLineEvent_without_raw(lines, i, page_url, today) ==
    LET line == lines[i]
        title == IF i > 1 THEN Some(JoinTokens(lines[i - 1])) ELSE None
        desc_lines == SubSeq(lines, i + 1,
                             IF i + 3 <= Len(lines) THEN i + 3 ELSE Len(lines))
        description ==
            IF desc_lines # <<>> THEN Some(JoinLines(desc_lines)) ELSE None
        date_match == DateMatch(line)
        time_match == TimeMatch(line)
        candidate ==
            IF ~IsNone(date_match) /\ ~IsNone(time_match)
            THEN <<Val(date_match), Val(time_match)>>
            ELSE IF ~IsNone(date_match) THEN <<Val(date_match)>>
            ELSE IF ~IsNone(time_match) THEN <<Val(time_match)>>
            ELSE <<>>
        first_try == _try_parse_datetime(candidate, today)
        start_iso == IF IsNone(first_try)
                     THEN _try_parse_datetime(line, today) ELSE first_try
        dtstart == start_iso
    IN [Event EXCEPT !.summary = title, !.dtstart = dtstart,
                     !.description = description,
                     !.raw = Some(JoinTokens(line)), !.url = page_url,
                     !.title = title, !.start = dtstart]

\* The candidate of one date line (step 2 of extract_events).
DateLineEvent(lines, i, page_url, today) ==
    LET line == lines[i]
        title == IF i > 1 THEN Some(JoinTokens(lines[i - 1])) ELSE None
        desc_lines == SubSeq(lines, i + 1,
                             IF i + 3 <= Len(lines) THEN i + 3 ELSE Len(lines))
        description ==
            IF desc_lines # <<>> THEN Some(JoinLines(desc_lines)) ELSE None
        date_match == DateMatch(line)
        time_match == TimeMatch(line)
        candidate ==
            IF ~IsNone(date_match) /\ ~IsNone(time_match)
            THEN <<Val(date_match), Val(time_match)>>
            ELSE IF ~IsNone(date_match) THEN <<Val(date_match)>>
            ELSE IF ~IsNone(time_match) THEN <<Val(time_match)>>
            ELSE <<>>
        first_try == _try_parse_datetime(candidate, today)
        start_iso == IF IsNone(first_try)
                     THEN _try_parse_datetime(line, today) ELSE first_try
        dtstart == IF ~IsNone(start_iso) THEN start_iso
                   ELSE IF candidate # <<>> THEN Some(JoinTokens(candidate))
                   ELSE Some(JoinTokens(line))
    IN [Event EXCEPT !.summary = title, !.dtstart = dtstart,
                     !.description = description,
                     !.raw = Some(JoinTokens(line)), !.url = page_url,
                     !.title = title, !.start = dtstart]

\* extract_events(text, page_url) on a text without an embedded VEVENT
\* block: one candidate per date line, in line order.
extract_events(text, page_url, today) ==
    IF text = <<>> THEN <<>>
    ELSE LET lines == SelectSeq(text, NonEmptyLine)
             hits == SelectSeq([i \in 1..Len(lines) |-> i],
                               LAMBDA i : ~IsNone(DateMatch(lines[i])))
         IN [n \in 1..Len(hits) |->
                DateLineEvent(lines, hits[n], page_url, today)]

\* extract_events_async(page): the strategy chosen at construction. The
\* model-backed strategy is the client's chat_page_extract; the heuristic
\* strategy takes the first candidate of extract_events, if any.
extract_events_async(page, resp, today) ==
    IF strategy = "model" THEN chat_page_extract(page, resp)
    ELSE LET found == extract_events(page.plain_text, page.page_url, today)
         IN Returned(IF found = <<>> THEN None ELSE Some(found[1]))

----------------------------------------------------------------------------
(* app/services/page_categorizer.py, as the container builds it *)

\* min_description_length=10
CategorizerMinDescriptionLength == 10

\* PageCategorizer.is_valid_event(event)
categorizer_is_valid_event(oev) ==
    IF IsNone(oev) THEN FALSE
    ELSE LET event == Val(oev) IN
         IF IsNone(event.title) \/ IsNone(event.start) THEN FALSE
         ELSE \/ ~IsNone(event.location)
              \/ /\ ~IsNone(event.description)
                 /\ Len(Val(event.description))
                       >= CategorizerMinDescriptionLength

----------------------------------------------------------------------------
(* app/services/page_event_extract_and_save.py *)

\* An extract_and_save that only checks that there is a candidate.
extract_and_save_ungated(page, resp) ==
    /\ extracted' = extract_events_async(page, resp, now)
    /\ IF extracted'.status = "raised"
       THEN saved' = extracted'
            /\ UNCHANGED <<events, next_event_id, op, sessions, upserts>>
       ELSE IF IsNone(extracted'.value)
       THEN saved' = Returned(None)
            /\ UNCHANGED <<events, next_event_id, op, sessions, upserts>>
       ELSE /\ upsert_event_by_hash(Val(extracted'.value), page.page_id, None)
            /\ upserts' = upserts + 1
            /\ saved' = Returned(extracted'.value)

\* extract_and_save(page): extract, gate, upsert. An exception of the
\* extractor leaves through this method.
extract_and_save(page, resp) ==
    /\ extracted' = extract_events_async(page, resp, now)
    /\ IF extracted'.status = "raised"
       THEN saved' = extracted'
            /\ UNCHANGED <<events, next_event_id, op, sessions, upserts>>
       ELSE IF IsNone(extracted'.value)
               \/ ~categorizer_is_valid_event(extracted'.value)
       THEN saved' = Returned(None)
            /\ UNCHANGED <<events, next_event_id, op, sessions, upserts>>
       ELSE /\ upsert_event_by_hash(Val(extracted'.value), page.page_id, None)
            /\ upserts' = upserts + 1
            /\ saved' = Returned(extracted'.value)

----------------------------------------------------------------------------
(* The stored pages and the model's replies to them *)

Text1 ==
    <<<<Word("Fun"), Word("Hike")>>,
      <<MonthName("January", 1), Number("10,", 10), Number("2026", 2026),
        ClockTime("10:00 AM", 10, 0)>>,
      <<Word("Join"), Word("us"), Word("for"), Word("a"), Word("hike")>>>>

Text2 ==
    <<<<MonthName("January", 1), Number("10,", 10), Number("2026", 2026)>>,
      <<Word("Bring"), Word("water"), Word("and"), Word("good"),
        Word("shoes")>>>>

Text3 ==
    <<<<Word("Welcome"), Word("to"), Word("our"), Word("homepage")>>,
      <<>>,
      <<Word("Opening"), Word("hours"), Word("vary")>>>>

Texts == <<Text1, Text2, Text3>>

TextNo(page_id) == ((page_id - 1) % Len(Texts)) + 1

PageStore ==
    [p \in PageIds |->
        [page_id |-> p,
         page_url |-> Some("https://example.com/page/" \o ToString(p)),
         plain_text |-> Texts[TextNo(p)]]]

\* The model's reply to a page's text (temperature 0: one reply per text):
\* a JSON object with commentary around it, an object whose summary is
\* null, and a reply without any object.
ModelReply(page) ==
    CASE TextNo(page.page_id) = 1 ->
           HttpOk(<<"x", "{", "m", ",", "m", "}", "x">>,
                  [NoData EXCEPT !.summary = Some("Fun Hike"),
                                 !.dtstart = Some("2026-01-10T10:00:00"),
                                 !.description = Some("Join us for a hike")])
      [] TextNo(page.page_id) = 2 ->
           HttpOk(<<"{", "m", "}">>,
                  [NoData EXCEPT !.dtstart = Some("2026-01-10")])
      [] OTHER -> HttpOk(<<"x", "x">>, NoData)

\* What one outbound call can meet. The heuristic strategy makes no call.
Outcomes(page) ==
    IF strategy = "model" THEN HttpFailures \cup {ModelReply(page)}
    ELSE {HttpFailure("connection_error")}

\* PagesRepository.fetch_pages(full=True, limit=limit, config_id=None)
fetch_pages(limit) == SubSeq([p \in PageIds |-> p], 1, limit)

RowsOfPage(rows, page_id) == {r \in rows : r.page_id = page_id}

----------------------------------------------------------------------------
(* app/routers/extractors.py: POST /extractors/extract *)

\* The request arrives; fetch_pages; events_saved = 0.
StartBatch ==
    /\ pc = "idle"
    /\ \E limit \in 1..NumPages : pages' = fetch_pages(limit)
    /\ idx' = 1
    /\ events_saved' = 0
    /\ upserts' = 0
    /\ response' = NoResponse
    /\ pc' = "loop"
    /\ UNCHANGED <<strategy, extracted, saved, after_first, repoVars>>

\* One iteration of `for page in pages`. An exception of extract_and_save
\* is not caught in the loop: the handler ends without a result.
ProcessPage ==
    /\ pc = "loop"
    /\ idx <= Len(pages)
    /\ LET page == PageStore[pages[idx]]
       IN /\ \E resp \in Outcomes(page) : extract_and_save(page, resp)
          /\ IF saved'.status = "raised"
             THEN /\ pc' = "failed"
                  /\ UNCHANGED <<idx, events_saved, after_first>>
             ELSE /\ pc' = "loop"
                  /\ idx' = idx + 1
                  /\ events_saved' =
                        IF IsNone(saved'.value) THEN events_saved
                        ELSE events_saved + 1
                  /\ after_first' =
                        IF IsNone(after_first[page.page_id])
                        THEN [after_first EXCEPT ![page.page_id] =
                                 Some(Cardinality(
                                     RowsOfPage(events', page.page_id)))]
                        ELSE after_first
    /\ UNCHANGED <<strategy, pages, response, now>>

\* return ExtractionResult(total_pages=len(pages), events_saved=...)
ReturnResult ==
    /\ pc = "loop"
    /\ idx > Len(pages)
    /\ response' = [total_pages |-> Len(pages), events_saved |-> events_saved]
    /\ pc' = "done"
    /\ UNCHANGED <<strategy, pages, idx, events_saved, extracted, saved,
                   upserts, after_first, repoVars>>

\* The handler is over (a result, or an error response); the next request
\* can come.
NextRequest ==
    /\ pc \in {"done", "failed"}
    /\ pc' = "idle"
    /\ UNCHANGED <<strategy, pages, idx, events_saved, response, extracted,
                   saved, upserts, after_first, repoVars>>

\* Time passes between requests: the next year.
TickYear ==
    /\ now.year < StartYear + MaxYearsAhead
    /\ now' = [now EXCEPT !.year = @ + 1]
    /\ UNCHANGED <<events, next_event_id, op, sessions>>

Init ==
    /\ strategy \in {"model", "heuristic"}
    /\ pc = "idle"
    /\ pages = <<>>
    /\ idx = 1
    /\ events_saved = 0
    /\ response = NoResponse
    /\ extracted = NotCalled
    /\ saved = NotCalled
    /\ upserts = 0
    /\ after_first = [p \in PageIds |-> None]
    /\ RepoIdle /\ GateIdle /\ ClientIdle /\ TasksIdle /\ FnIdle

Next ==
    \/ StartBatch /\ UNCHANGED <<gateVars, clientVars, taskVars, fnVars>>
    \/ ProcessPage /\ UNCHANGED <<gateVars, clientVars, taskVars, fnVars>>
    \/ ReturnResult /\ UNCHANGED <<gateVars, clientVars, taskVars, fnVars>>
    \/ NextRequest /\ UNCHANGED <<gateVars, clientVars, taskVars, fnVars>>
    \/ /\ pc = "idle"
       /\ TickDay
       /\ UNCHANGED <<gateVars, clientVars, taskVars, pipeVars, fnVars>>
    \/ /\ pc = "idle"
       /\ TickYear
       /\ UNCHANGED <<gateVars, clientVars, taskVars, pipeVars, fnVars>>

Spec == Init /\ [][Next]_vars

----------------------------------------------------------------------------
(* Claims about the pipeline *)

\* C3 (as claimed): once a page has been through extract_and_save, running
\* it again on the unchanged text, at any later time, never leaves more
\* rows for that page than the first run left.
C3_ReextractionAddsNoRows ==
    \A p \in PageIds :
        ~IsNone(after_first[p]) =>
            Cardinality(RowsOfPage(events, p)) <= Val(after_first[p])

StoredRowsHaveTitleAndStart ==
    \A r \in events : ~IsNone(r.title) /\ ~IsNone(r.start)

\* A loop iteration whose candidate is absent or lacks title or start
\* issues no upsert and leaves the table as it was.
RejectedBeforeUpsert ==
    (/\ pc = "loop" /\ pc' = "loop" /\ idx' = idx + 1
     /\ \/ IsNone(extracted'.value)
        \/ IsNone(Val(extracted'.value).title)
        \/ IsNone(Val(extracted'.value).start))
        => /\ events' = events
           /\ next_event_id' = next_event_id
           /\ upserts' = upserts
           /\ saved' = Returned(None)

----------------------------------------------------------------------------
(* app/services/page_date_service.py: format_rrule

   An rrule field-set is a record of optional fields: freq (characters),
   interval and count (integers), until (text). The argument of a call is
   tagged with its Python type: "dict", "str" or "none". *)

PyNone == [t |-> "none"]

PyStr(s) == [t |-> "str", s |-> s]

PyDict(d) == [t |-> "dict", d |-> d]

\* Python truthiness of an optional integer / an optional text.
TruthyInt(o) == ~IsNone(o) /\ Val(o) # 0

TruthyText(o) == ~IsNone(o) /\ Val(o) # ""

RECURSIVE JoinWith(_, _)
\* sep.join(parts)
JoinWith(parts, sep) ==
    IF parts = <<>> THEN ""
    ELSE IF Len(parts) = 1 THEN parts[1]
    ELSE parts[1] \o sep \o JoinWith(Tail(parts), sep)

\* format_rrule(rrule_obj): the RRULE text, or None.
format_rrule(rrule_obj) ==
    IF rrule_obj.t # "dict" THEN
        (IF rrule_obj.t = "none" THEN None ELSE Some(rrule_obj.s))
    ELSE
    LET r == rrule_obj.d
        freq == Concat(Upper(IF IsNone(r.freq) THEN <<>> ELSE Val(r.freq)))
        parts ==
            (IF freq # "" THEN <<"FREQ=" \o freq>> ELSE <<>>)
            \o (IF TruthyInt(r.interval) /\ Val(r.interval) # 1
                THEN <<"INTERVAL=" \o ToString(Val(r.interval))>> ELSE <<>>)
            \o (IF TruthyInt(r.count)
                THEN <<"COUNT=" \o ToString(Val(r.count))>> ELSE <<>>)
            \o (IF TruthyText(r.until)
                THEN <<"UNTIL=" \o Val(r.until)>> ELSE <<>>)
    IN IF /\ freq \in {"DAILY", "WEEKLY"}
          /\ r.interval = Some(1)
          /\ ~TruthyInt(r.count) /\ ~TruthyText(r.until)
       THEN None
       ELSE IF parts # <<>> THEN Some(JoinWith(parts, ";")) ELSE None

\* Largest interval and count of the rules handed to format_rrule.
MaxInterval == 3

MaxCount == 5

RruleFreqs ==
    {<<"D", "A", "I", "L", "Y">>, <<"d", "a", "i", "l", "y">>,
     <<"W", "E", "E", "K", "L", "Y">>, <<"W", "e", "e", "k", "l", "y">>,
     <<"M", "O", "N", "T", "H", "L", "Y">>, <<"Y", "E", "A", "R", "L", "Y">>}

RruleInputs ==
    {PyDict([freq |-> fr, interval |-> iv, count |-> ct, until |-> un]) :
        fr \in {None} \cup {Some(f) : f \in RruleFreqs},
        iv \in {None} \cup {Some(n) : n \in 1..MaxInterval},
        ct \in {None, Some(1), Some(MaxCount)},
        un \in {None, Some("20261231T000000Z")}}
    \cup {PyNone, PyStr("FREQ=DAILY;COUNT=3")}

SpecRruleInit ==
    /\ f_in \in RruleInputs
    /\ f_now = StartTime
    /\ f_out = NotCalled
    /\ RepoIdle /\ GateIdle /\ ClientIdle /\ TasksIdle /\ PipeIdle

CallFormatRrule ==
    /\ f_out = NotCalled
    /\ f_out' = Returned(format_rrule(f_in))
    /\ UNCHANGED <<f_in, f_now>>

SpecRruleNext ==
    CallFormatRrule
    /\ UNCHANGED <<repoVars, gateVars, clientVars, taskVars, pipeVars>>

SpecRrule == SpecRruleInit /\ [][SpecRruleNext]_vars

\* The rule text the design describes for a field-set with a freq.
RruleText(r) ==
    JoinWith(
        <<"FREQ=" \o Concat(Upper(Val(r.freq)))>>
        \o (IF ~IsNone(r.interval) /\ Val(r.interval) # 1
            THEN <<"INTERVAL=" \o ToString(Val(r.interval))>> ELSE <<>>)
        \o (IF ~IsNone(r.count)
            THEN <<"COUNT=" \o ToString(Val(r.count))>> ELSE <<>>)
        \o (IF ~IsNone(r.until) THEN <<"UNTIL=" \o Val(r.until)>> ELSE <<>>),
        ";")

\* C11 (as claimed): for a field-set with a non-empty freq, format_rrule
\* returns none exactly when freq is DAILY or WEEKLY, interval is 1 or
\* absent and neither count nor until is given; otherwise it returns
\* FREQ=<freq> followed by the INTERVAL (when not 1), COUNT and UNTIL parts
\* that are present, in this order, joined by ';'.
C11_RruleDiscardedOrFormatted ==
    (/\ f_out.status = "returned"
     /\ f_in.t = "dict"
     /\ ~IsNone(f_in.d.freq))
        => LET r == f_in.d
               generic ==
                   /\ Concat(Upper(Val(r.freq))) \in {"DAILY", "WEEKLY"}
                   /\ (IsNone(r.interval) \/ r.interval = Some(1))
                   /\ IsNone(r.count) /\ IsNone(r.until)
           IN f_out.value = (IF generic THEN None ELSE Some(RruleText(r)))

----------------------------------------------------------------------------
(* datetime and timedelta, as format_date uses them. An instant is a day
   number (date.toordinal()) and the seconds since midnight. *)

RECURSIVE DaysBeforeMonth(_, _)
DaysBeforeMonth(y, m) ==
    IF m <= 1 THEN 0 ELSE DaysBeforeMonth(y, m - 1) + DaysInMonth(y, m - 1)

\* date(y, m, d).toordinal()
Ordinal(y, m, d) ==
    365 * (y - 1) + ((y - 1) \div 4) - ((y - 1) \div 100)
        + ((y - 1) \div 400) + DaysBeforeMonth(y, m) + d

\* datetime(y, m, d, h, mi, s) is constructed without ValueError.
ValidDateTime(y, m, d, h, mi, s) ==
    /\ y \in 1..9999 /\ m \in 1..12
    /\ d >= 1 /\ d <= DaysInMonth(y, m)
    /\ h \in 0..23 /\ mi \in 0..59 /\ s \in 0..59

Instant(y, m, d, h, mi, s) ==
    [ord |-> Ordinal(y, m, d), sec |-> 3600 * h + 60 * mi + s]

\* a < b
Before(a, b) == a.ord < b.ord \/ (a.ord = b.ord /\ a.sec < b.sec)

\* t - timedelta(days=n)
MinusDays(t, n) == [t EXCEPT !.ord = @ - n]

\* datetime.now(), read to the hour.
NowInstant(clock) == Instant(clock.year, clock.month, clock.day, clock.hour, 0, 0)

DigitChars == <<"0", "1", "2", "3", "4", "5", "6", "7", "8", "9">>

RECURSIVE DigitsOf(_)
\* str(n) for n >= 0, as characters
DigitsOf(n) ==
    IF n < 10 THEN <<DigitChars[n + 1]>>
    ELSE DigitsOf(n \div 10) \o <<DigitChars[(n % 10) + 1]>>

RECURSIVE ZeroPad(_, _)
ZeroPad(cs, w) == IF Len(cs) >= w THEN cs ELSE ZeroPad(<<"0">> \o cs, w)

\* f"{n:0wd}" for n >= 0
Fmt(n, w) == ZeroPad(DigitsOf(n), w)

\* f"{year:04d}-{month:02d}-{day:02d}"
DateChars(y, m, d) == Fmt(y, 4) \o <<"-">> \o Fmt(m, 2) \o <<"-">> \o Fmt(d, 2)

\* f"...T{hour:02d}:{minute:02d}:{second:02d}"
DateTimeChars(y, m, d, h, mi, s) ==
    DateChars(y, m, d) \o <<"T">> \o Fmt(h, 2) \o <<":">> \o Fmt(mi, 2)
        \o <<":">> \o Fmt(s, 2)

----------------------------------------------------------------------------
(* app/services/page_date_service.py: format_date, the field-set branch.
   A field of the field-set is absent (None) or holds a tagged value: an
   integer, a text, or null. *)

PyInt(n) == [t |-> "int", n |-> n]

\* date_obj.get(key, default)
GetOr(field, default) == IF IsNone(field) THEN default ELSE Val(field)

\* Python truthiness of a tagged value.
Truthy(v) ==
    CASE v.t = "int" -> v.n # 0
      [] v.t = "str" -> v.s # <<>>
      [] v.t = "dict" -> TRUE
      [] OTHER -> FALSE

\* The year format_date settles on for valid integer fields: the original
\* year, or the repaired one. A ValueError of a datetime constructor leaves
\* the year as assigned so far.
RepairedYear(y, m, d, h, mi, s, clock) ==
    IF ~ValidDateTime(y, m, d, h, mi, s) THEN y
    ELSE IF ~Before(Instant(y, m, d, h, mi, s),
                    MinusDays(NowInstant(clock), 365)) THEN y
    ELSE IF ~ValidDateTime(clock.year, m, d, h, mi, s) THEN clock.year
    ELSE IF Before(Instant(clock.year, m, d, h, mi, s),
                   MinusDays(NowInstant(clock), 30)) THEN clock.year + 1
    ELSE clock.year

\* format_date(date_obj) for a dict.
format_date_dict(date_obj, clock) ==
    LET f == date_obj.d
        year == GetOr(f.year, PyNone)
        month == GetOr(f.month, PyInt(1))
        day == GetOr(f.day, PyInt(1))
        hour == GetOr(f.hour, PyNone)
        minute == GetOr(f.minute, PyInt(0))
        second == GetOr(f.second, PyInt(0))
        timed == hour.t # "none"
        args == IF timed THEN <<year, month, day, hour, minute, second>>
                ELSE <<year, month, day>>
    IN IF ~Truthy(year) THEN Returned(date_obj)
       ELSE IF \E i \in 1..Len(args) : args[i].t # "int"
       THEN Raised("TypeError")
       ELSE LET h == IF timed THEN hour.n ELSE 0
                mi == IF timed THEN minute.n ELSE 0
                sc == IF timed THEN second.n ELSE 0
                yr == RepairedYear(year.n, month.n, day.n, h, mi, sc, clock)
            IN Returned(PyStr(
                   IF timed
                   THEN DateTimeChars(yr, month.n, day.n, h, mi, sc)
                   ELSE DateChars(yr, month.n, day.n)))

----------------------------------------------------------------------------
(* dateutil.parser.parse on a date string given as characters, for the
   strings the date service meets: words separated by spaces or commas,
   each an ISO date (YYYY-MM-DD), a clock time (H:MM, HH:MM:SS, with an
   optional Z), a three-letter month name, AM or PM, a day number of one or
   two digits, a year of four digits, a skipped word (at, on, of, and), or
   any other word. An ISO date and its time may be joined by T. *)

IsDigit(c) == \E i \in 1..10 : DigitChars[i] = c

DigitVal(c) == (CHOOSE i \in 1..10 : DigitChars[i] = c) - 1

AllDigits(cs) == cs # <<>> /\ \A i \in 1..Len(cs) : IsDigit(cs[i])

RECURSIVE ParseNum(_)
\* int(cs) for a sequence of digits
ParseNum(cs) ==
    IF cs = <<>> THEN 0
    ELSE 10 * ParseNum(SubSeq(cs, 1, Len(cs) - 1)) + DigitVal(cs[Len(cs)])

\* Position i of s separates two words: a space, a comma, or the T
\* between the digits of a date and of a time.
IsSeparator(s, i) ==
    \/ s[i] \in {" ", ","}
    \/ /\ s[i] = "T" /\ i > 1 /\ i < Len(s)
       /\ IsDigit(s[i - 1]) /\ IsDigit(s[i + 1])

RECURSIVE SplitFrom(_, _, _)
\* The words of s from position i on, `cur` being the word in progress.
SplitFrom(s, i, cur) ==
    IF i > Len(s) THEN (IF cur = <<>> THEN <<>> ELSE <<cur>>)
    ELSE IF IsSeparator(s, i)
    THEN (IF cur = <<>> THEN <<>> ELSE <<cur>>) \o SplitFrom(s, i + 1, <<>>)
    ELSE SplitFrom(s, i + 1, Append(cur, s[i]))

DateWords(s) == SplitFrom(s, 1, <<>>)

MonthAbbrevs ==
    <<<<"j", "a", "n">>, <<"f", "e", "b">>, <<"m", "a", "r">>,
      <<"a", "p", "r">>, <<"m", "a", "y">>, <<"j", "u", "n">>,
      <<"j", "u", "l">>, <<"a", "u", "g">>, <<"s", "e", "p">>,
      <<"o", "c", "t">>, <<"n", "o", "v">>, <<"d", "e", "c">>>>

JumpWords ==
    {<<"a", "t">>, <<"o", "n">>, <<"o", "f">>, <<"a", "n", "d">>}

IsIsoDateWord(w) ==
    /\ Len(w) = 10 /\ w[5] = "-" /\ w[8] = "-"
    /\ \A i \in {1, 2, 3, 4, 6, 7, 9, 10} : IsDigit(w[i])

\* A clock time without its Z: H:MM, HH:MM, H:MM:SS or HH:MM:SS.
IsClockChars(w) ==
    \E k \in {1, 2} :
        /\ Len(w) \in {k + 3, k + 6}
        /\ AllDigits(SubSeq(w, 1, k)) /\ w[k + 1] = ":"
        /\ AllDigits(SubSeq(w, k + 2, k + 3))
        /\ Len(w) = k + 6 =>
               w[k + 4] = ":" /\ AllDigits(SubSeq(w, k + 5, k + 6))

HasZulu(w) == w # <<>> /\ w[Len(w)] = "Z"

DropZulu(w) == IF HasZulu(w) THEN SubSeq(w, 1, Len(w) - 1) ELSE w

IsTimeWord(w) == IsClockChars(DropZulu(w))

IsMonthWord(w) == \E i \in 1..12 : MonthAbbrevs[i] = Lower(w)

IsAmPm(w) == Lower(w) \in {<<"a", "m">>, <<"p", "m">>}

IsDayWord(w) == AllDigits(w) /\ Len(w) <= 2

IsYearWord(w) == AllDigits(w) /\ Len(w) = 4

IsJumpWord(w) == Lower(w) \in JumpWords

IsDatePart(w) ==
    \/ IsIsoDateWord(w) \/ IsTimeWord(w) \/ IsMonthWord(w) \/ IsAmPm(w)
    \/ IsDayWord(w) \/ IsYearWord(w)

\* The first word of ws for which Test holds, if any.
FirstWord(ws, Test(_)) ==
    IF \E i \in 1..Len(ws) : Test(ws[i])
    THEN Some(ws[CHOOSE i \in 1..Len(ws) :
                     Test(ws[i]) /\ \A j \in 1..(i - 1) : ~Test(ws[j])])
    ELSE None

\* The hour, minute and second of a clock time.
ClockFields(w) ==
    LET c == DropZulu(w)
        k == IF c[2] = ":" THEN 1 ELSE 2
    IN [h |-> ParseNum(SubSeq(c, 1, k)),
        mi |-> ParseNum(SubSeq(c, k + 2, k + 3)),
        s |-> IF Len(c) = k + 6 THEN ParseNum(SubSeq(c, k + 5, k + 6)) ELSE 0]

ParseFailure == [ok |-> FALSE, y |-> 0, m |-> 0, d |-> 0, h |-> 0, mi |-> 0,
                 s |-> 0, aware |-> FALSE]

\* parse(s, fuzzy=fuzzy) of the words ws of s, with today's date as the
\* default: the fields, and whether the result carries a time zone; ok is
\* FALSE for ParserError.
ParseWords(ws, fuzzy, clock) ==
    LET iso == FirstWord(ws, IsIsoDateWord)
        mon == FirstWord(ws, IsMonthWord)
        dayw == FirstWord(ws, IsDayWord)
        yrw == FirstWord(ws, IsYearWord)
        tim == FirstWord(ws, IsTimeWord)
        ap == FirstWord(ws, IsAmPm)
        y == IF ~IsNone(iso) THEN ParseNum(SubSeq(Val(iso), 1, 4))
             ELSE IF ~IsNone(yrw) THEN ParseNum(Val(yrw)) ELSE clock.year
        m == IF ~IsNone(iso) THEN ParseNum(SubSeq(Val(iso), 6, 7))
             ELSE IF ~IsNone(mon)
             THEN CHOOSE i \in 1..12 : MonthAbbrevs[i] = Lower(Val(mon))
             ELSE clock.month
        last == IF m \in 1..12 THEN DaysInMonth(y, m) ELSE 31
        d == IF ~IsNone(iso) THEN ParseNum(SubSeq(Val(iso), 9, 10))
             ELSE IF ~IsNone(dayw) THEN ParseNum(Val(dayw))
             ELSE IF clock.day > last THEN last ELSE clock.day
        t == IF IsNone(tim) THEN [h |-> 0, mi |-> 0, s |-> 0]
             ELSE ClockFields(Val(tim))
        pm == ~IsNone(ap) /\ Lower(Val(ap)) = <<"p", "m">>
        am == ~IsNone(ap) /\ Lower(Val(ap)) = <<"a", "m">>
        h == IF pm /\ t.h < 12 THEN t.h + 12
             ELSE IF am /\ t.h = 12 THEN 0 ELSE t.h
    IN IF \A i \in 1..Len(ws) : ~IsDatePart(ws[i]) THEN ParseFailure
       ELSE IF ~fuzzy /\ \E i \in 1..Len(ws) :
                              ~IsDatePart(ws[i]) /\ ~IsJumpWord(ws[i])
       THEN ParseFailure
       ELSE IF ~ValidDateTime(y, m, d, h, t.mi, t.s) THEN ParseFailure
       ELSE [ok |-> TRUE, y |-> y, m |-> m, d |-> d, h |-> h, mi |-> t.mi,
             s |-> t.s, aware |-> ~IsNone(tim) /\ HasZulu(Val(tim))]

ParseDateString(s, fuzzy, clock) == ParseWords(DateWords(s), fuzzy, clock)

----------------------------------------------------------------------------
(* app/services/page_date_service.py: format_date, the string branch *)

\* sub in s
HasSub(s, sub) ==
    \E i \in 1..(Len(s) - Len(sub) + 1) :
        SubSeq(s, i, i + Len(sub) - 1) = sub

\* any(indicator in date_obj.lower() for indicator in time_indicators)
HasTimeIndicator(s) ==
    \E ind \in {<<"a", "m">>, <<"p", "m">>, <<":">>, <<"a", "t">>} :
        HasSub(Lower(s), ind)

\* strftime of the parsed (r), year-repaired date; the argument itself
\* when parsing or a replace(year=...) fails, or when the parsed value
\* carries a zone and cannot be compared with now.
FormattedParse(date_obj, clock, r) ==
    LET s == date_obj.s
        old == Before(Instant(r.y, r.m, r.d, r.h, r.mi, r.s),
                      MinusDays(NowInstant(clock), 365))
        passed == Before(Instant(clock.year, r.m, r.d, r.h, r.mi, r.s),
                         MinusDays(NowInstant(clock), 30))
        yr == IF ~old THEN r.y
              ELSE IF passed THEN clock.year + 1 ELSE clock.year
    IN IF ~r.ok \/ r.aware THEN date_obj
       ELSE IF old /\ ~ValidDateTime(clock.year, r.m, r.d, r.h, r.mi, r.s)
       THEN date_obj
       ELSE IF ~ValidDateTime(yr, r.m, r.d, r.h, r.mi, r.s) THEN date_obj
       ELSE IF HasTimeIndicator(s) /\ (r.h # 0 \/ r.mi # 0)
       THEN PyStr(DateTimeChars(yr, r.m, r.d, r.h, r.mi, r.s))
       ELSE PyStr(DateChars(yr, r.m, r.d))

\* The fuzzy branch: parse(date_obj, fuzzy=True), then the repair.
FuzzyFormatted(date_obj, clock) ==
    FormattedParse(date_obj, clock, ParseDateString(date_obj.s, TRUE, clock))

\* A string branch without the test for an ISO date of ten characters.
format_date_str_no_date_test(date_obj, clock) ==
    LET s == date_obj.s
    IN IF (\E i \in 1..Len(s) : s[i] = "T") /\ Len(s) >= 19
       THEN LET r == ParseDateString(s, FALSE, clock)
            IN IF r.ok
               THEN PyStr(DateTimeChars(r.y, r.m, r.d, r.h, r.mi, r.s))
               ELSE date_obj
       ELSE FuzzyFormatted(date_obj, clock)

\* format_date(date_obj) for a str.
format_date_str(date_obj, clock) ==
    LET s == date_obj.s
    IN IF (\E i \in 1..Len(s) : s[i] = "T") /\ Len(s) >= 19
       THEN LET r == ParseDateString(s, FALSE, clock)
            IN IF r.ok
               THEN PyStr(DateTimeChars(r.y, r.m, r.d, r.h, r.mi, r.s))
               ELSE date_obj
       ELSE IF Len(s) = 10 /\ s[5] = "-" /\ s[8] = "-" THEN date_obj
       ELSE FuzzyFormatted(date_obj, clock)

\* format_date(date_obj)
format_date(date_obj, clock) ==
    CASE date_obj.t = "dict" -> format_date_dict(date_obj, clock)
      [] date_obj.t = "str" -> Returned(format_date_str(date_obj, clock))
      [] OTHER -> Returned(date_obj)

----------------------------------------------------------------------------
(* The arguments and clocks format_date is applied to *)

\* Years before StartYear that the dates handed to format_date go back.
MaxYearsBack == 2

DateYears == (StartYear - MaxYearsBack)..(StartYear + 1)

DateClocks ==
    {[year |-> y, month |-> m, day |-> StartDay, hour |-> h] :
        y \in StartYear..(StartYear + MaxYearsAhead),
        m \in {StartMonth, 6}, h \in {0, 12}}

DateFieldSets ==
    {PyDict([year |-> y, month |-> m, day |-> d, hour |-> h, minute |-> mi,
             second |-> None]) :
        y \in {None, Some(PyInt(0)), Some(PyStr(DigitsOf(StartYear)))}
                \cup {Some(PyInt(n)) : n \in DateYears},
        m \in {None, Some(PyNone)} \cup {Some(PyInt(n)) : n \in {2, 12, 13}},
        d \in {None} \cup {Some(PyInt(n)) : n \in {14, 29}},
        h \in {None} \cup {Some(PyInt(n)) : n \in {14, 25}},
        mi \in {None, Some(PyInt(30)), Some(PyStr(<<"3", "0">>))}}

FebChars == <<"F", "e", "b", " ">>

TwoPmChars == <<" ", "2", ":", "0", "0", " ", "P", "M">>

DateStrings ==
    UNION {
        {DateChars(y, 2, 14), DateChars(y, 2, 29),
         DateTimeChars(y, 2, 14, 14, 0, 0),
         DateTimeChars(y, 2, 14, 14, 0, 0) \o <<"Z">>,
         DateTimeChars(y, 2, 29, 14, 0, 0),
         DateTimeChars(y, 2, 29, 14, 0, 0) \o <<"Z">>,
         DateChars(y, 2, 14) \o <<" ", "1", "4", ":", "0", "0", ":", "0", "0">>,
         DateChars(y, 2, 14) \o <<"T", "1", "4", ":", "0", "0">>,
         DateChars(y, 2, 14) \o <<"T", "1", "4", ":", "0", "0", "Z">>,
         FebChars \o <<"1", "4", " ">> \o DigitsOf(y),
         FebChars \o <<"2", "9", " ">> \o DigitsOf(y),
         FebChars \o <<"1", "4", " ">> \o DigitsOf(y) \o TwoPmChars,
         FebChars \o <<"1", "4", " ">> \o DigitsOf(y) \o <<" ", "A", "T">>
             \o TwoPmChars} : y \in DateYears}
    \cup {<<"D", "e", "c", " ", "2", "5">>, <<"t", "b", "d">>, <<>>,
          <<"T", "B", "D", " ", "-", " ", "s", "e", "e", " ", "w", "e", "b",
            "s", "i", "t", "e", " ", "s", "o", "o", "n">>}

DateInputs ==
    DateFieldSets \cup {PyStr(s) : s \in DateStrings}
        \cup {PyNone, PyInt(20260214)}

SpecDateInit ==
    /\ f_in \in DateInputs
    /\ f_now \in DateClocks
    /\ f_out = NotCalled
    /\ RepoIdle /\ GateIdle /\ ClientIdle /\ TasksIdle /\ PipeIdle

CallFormatDate ==
    /\ f_out = NotCalled
    /\ f_out' = format_date(f_in, f_now)
    /\ UNCHANGED <<f_in, f_now>>

SpecDateNext ==
    CallFormatDate
    /\ UNCHANGED <<repoVars, gateVars, clientVars, taskVars, pipeVars>>

SpecDate == SpecDateInit /\ [][SpecDateNext]_vars

----------------------------------------------------------------------------
(* Claims about format_date *)

IsIntField(o) == ~IsNone(o) /\ Val(o).t = "int"

IntOr(o, default) == IF IsNone(o) THEN default ELSE Val(o).n

\* The argument is a field-set {year, month, day, hour?, minute?, second?}
\* of integers that is a date (and time) of the calendar.
IsDateFieldSet(x) ==
    /\ x.t = "dict"
    /\ IsIntField(x.d.year) /\ IsIntField(x.d.month) /\ IsIntField(x.d.day)
    /\ \A o \in {x.d.hour, x.d.minute, x.d.second} :
           IsNone(o) \/ IsIntField(o)
    /\ ValidDateTime(Val(x.d.year).n, Val(x.d.month).n, Val(x.d.day).n,
                     IntOr(x.d.hour, 0), IntOr(x.d.minute, 0),
                     IntOr(x.d.second, 0))

\* The instant a date field-set names, with the year replaced by y.
FieldSetInstant(x, y) ==
    Instant(y, Val(x.d.month).n, Val(x.d.day).n, IntOr(x.d.hour, 0),
            IntOr(x.d.minute, 0), IntOr(x.d.second, 0))

\* The ISO text of a date field-set, with the year replaced by y.
FieldSetChars(x, y) ==
    IF IsNone(x.d.hour) THEN DateChars(y, Val(x.d.month).n, Val(x.d.day).n)
    ELSE DateTimeChars(y, Val(x.d.month).n, Val(x.d.day).n, Val(x.d.hour).n,
                       IntOr(x.d.minute, 0), IntOr(x.d.second, 0))

\* C12 (as claimed): for a date field-set that lies more than 365 days
\* before now, format_date returns the date with its month, day and time
\* kept and its year replaced: by the current year if that month/day is not
\* more than 30 days in the past, by the next year otherwise; never by the
\* original year.
C12_OldDateMovedToCurrentOrNextYear ==
    (/\ f_out.status # "not called"
     /\ IsDateFieldSet(f_in)
     /\ Before(FieldSetInstant(f_in, Val(f_in.d.year).n),
               MinusDays(NowInstant(f_now), 365)))
        => LET yr == IF Before(FieldSetInstant(f_in, f_now.year),
                               MinusDays(NowInstant(f_now), 30))
                     THEN f_now.year + 1 ELSE f_now.year
           IN /\ yr # Val(f_in.d.year).n
              /\ f_out = Returned(PyStr(FieldSetChars(f_in, yr)))

\* C13 (as claimed): format_date never raises; a string no parsing strategy
\* can interpret is returned unchanged, and so is a field-set without year.
C13_FormatDateNeverRaises ==
    f_out.status # "not called" =>
        /\ f_out.status = "returned"
        /\ (f_in.t = "str" /\ ~ParseDateString(f_in.s, TRUE, f_now).ok)
               => f_out.value = f_in
        /\ (f_in.t = "dict" /\ IsNone(f_in.d.year)) => f_out.value = f_in

\* s is YYYY-MM-DDTHH:MM:SS, followed by nothing or by the zone Z.
IsIsoDateTime(s) ==
    /\ Len(s) \in {19, 20}
    /\ IsIsoDateWord(SubSeq(s, 1, 10)) /\ s[11] = "T"
    /\ IsClockChars(SubSeq(s, 12, 19))
    /\ Len(s) = 20 => s[20] = "Z"

\* C14 (as claimed): a string that is already YYYY-MM-DD (10 characters), or
\* already contains a time component in ISO shape, is returned unchanged.
C14_IsoStringsUnchanged ==
    (/\ f_out.status # "not called"
     /\ f_in.t = "str"
     /\ IsIsoDateWord(f_in.s) \/ IsIsoDateTime(f_in.s))
        => f_out = Returned(f_in)

\* C14 (amended): a YYYY-MM-DD string (10 characters) and a string that is
\* exactly YYYY-MM-DDTHH:MM:SS are returned unchanged, whatever their year;
\* YYYY-MM-DDTHH:MM:SS followed by Z is re-emitted without the Z when it is
\* a date-time of the calendar, and returned unchanged when it is not.
C14_IsoStringsNormalized ==
    (/\ f_out.status # "not called"
     /\ f_in.t = "str"
     /\ IsIsoDateWord(f_in.s) \/ IsIsoDateTime(f_in.s))
        => LET s == f_in.s
               valid == ValidDateTime(ParseNum(SubSeq(s, 1, 4)),
                                      ParseNum(SubSeq(s, 6, 7)),
                                      ParseNum(SubSeq(s, 9, 10)),
                                      ParseNum(SubSeq(s, 12, 13)),
                                      ParseNum(SubSeq(s, 15, 16)),
                                      ParseNum(SubSeq(s, 18, 19)))
           IN IF Len(s) = 20 /\ valid
              THEN f_out = Returned(PyStr(SubSeq(s, 1, 19)))
              ELSE f_out = Returned(f_in)

\* Both cases have happened: this call re-emitted an ISO date-time without
\* its Z; the string and clock are such that a year repair would apply.
C14_Witness ==
    /\ f_in.t = "str"
    /\ IsIsoDateTime(f_in.s) /\ Len(f_in.s) = 20
    /\ ParseNum(SubSeq(f_in.s, 1, 4)) < f_now.year - 1
    /\ f_out = Returned(PyStr(SubSeq(f_in.s, 1, 19)))

----------------------------------------------------------------------------
(* IcalNormalizer.normalize_text: four str.replace passes over the text, each
   pass working on the result of the one before. A text is the sequence of
   its characters. *)

RECURSIVE Replace(_, _, _)
\* s.replace(c, rep) for a one-character c.
Replace(s, c, rep) ==
    IF s = <<>> THEN <<>>
    ELSE (IF Head(s) = c THEN rep ELSE <<Head(s)>>) \o Replace(Tail(s), c, rep)

Backslash == "\\"

Newline == "\n"

\* The passes in another order: the backslash pass last.
normalize_text_backslash_last(value) ==
    IF value.t = "none" THEN PyNone
    ELSE LET s1 == Replace(value.s, Newline, <<Backslash, "n">>)
             s2 == Replace(s1, ",", <<Backslash, ",">>)
             s3 == Replace(s2, ";", <<Backslash, ";">>)
             s4 == Replace(s3, Backslash, <<Backslash, Backslash>>)
         IN PyStr(s4)

normalize_text(value) ==
    IF value.t = "none" THEN PyNone
    ELSE LET s1 == Replace(value.s, Backslash, <<Backslash, Backslash>>)
             s2 == Replace(s1, Newline, <<Backslash, "n">>)
             s3 == Replace(s2, ",", <<Backslash, ",">>)
             s4 == Replace(s3, ";", <<Backslash, ";">>)
         IN PyStr(s4)

\* Longest text handed to normalize_text.
MaxTextLen == 3

TextChars == {Backslash, Newline, ",", ";", "n", "a"}

TextInputs == {PyNone} \cup {PyStr(s) : s \in SeqsUpTo(TextChars, MaxTextLen)}

SpecTextInit ==
    /\ f_in \in TextInputs
    /\ f_now = StartTime
    /\ f_out = NotCalled
    /\ RepoIdle /\ GateIdle /\ ClientIdle /\ TasksIdle /\ PipeIdle

CallNormalizeText ==
    /\ f_out = NotCalled
    /\ f_out' = Returned(normalize_text(f_in))
    /\ UNCHANGED <<f_in, f_now>>

SpecTextNext ==
    CallNormalizeText
    /\ UNCHANGED <<repoVars, gateVars, clientVars, taskVars, pipeVars>>

SpecText == SpecTextInit /\ [][SpecTextNext]_vars

\* What one original character becomes in escaped text.
EscapedChar(c) ==
    CASE c = Backslash -> <<Backslash, Backslash>>
      [] c = Newline -> <<Backslash, "n">>
      [] c = "," -> <<Backslash, ",">>
      [] c = ";" -> <<Backslash, ";">>
      [] OTHER -> <<c>>

RECURSIVE EscapedText(_)
EscapedText(s) ==
    IF s = <<>> THEN <<>> ELSE EscapedChar(Head(s)) \o EscapedText(Tail(s))

\* C15: normalize_text turns each original backslash into exactly two
\* backslashes and each original newline, comma and semicolon into one
\* backslash followed by "n", "," or ";", every other character into itself,
\* and nothing else is added (a backslash written by a later pass is not
\* escaped again); none is returned for none.
C15_EachCharacterEscapedOnce ==
    f_out.status # "not called"
        => /\ f_out.status = "returned"
           /\ f_in.t = "none" => f_out.value = PyNone
           /\ f_in.t = "str" => f_out.value = PyStr(EscapedText(f_in.s))

\* A text with a backslash, a newline and a comma has been escaped.
C15_Witness ==
    /\ f_in = PyStr(<<Backslash, Newline, ",">>)
    /\ f_out = Returned(PyStr(<<Backslash, Backslash, Backslash, "n", Backslash, ",">>))

----------------------------------------------------------------------------
(* ICalFormattingService.format_ical: the list of lines and the document
   joined with CR LF. A line is the sequence of its pieces: a fixed piece
   such as "SUMMARY:" followed by the characters of the value. *)

\* if event.x: the field is neither None nor the empty text.
Present(o) == ~IsNone(o) /\ Val(o) # <<>>

\* str(x).replace("-", "").replace(":", "").replace(" ", "T")
CompactDate(x) == Replace(Replace(Replace(x, "-", <<>>), ":", <<>>), " ", <<"T">>)

HasChar(s, c) == \E i \in 1..Len(s) : s[i] = c

\* datetime.utcnow().strftime('%Y%m%dT%H%M%SZ')
UtcStamp(clock) ==
    Fmt(clock.year, 4) \o Fmt(clock.month, 2) \o Fmt(clock.day, 2) \o <<"T">>
        \o Fmt(clock.hour, 2) \o Fmt(0, 2) \o Fmt(0, 2) \o <<"Z">>

\* The DTSTART / DTEND line of a value.
DateLine(name, x) ==
    LET v == CompactDate(x)
    IN IF ~HasChar(v, "T") THEN <<name \o ";VALUE=DATE:">> \o v
       ELSE <<name \o ":">> \o v

\* replace("\\", "\\\\").replace(",", "\\,").replace(";", "\;").replace("\n", "\\n")
EscapedDescription(x) ==
    Replace(Replace(Replace(Replace(x, Backslash, <<Backslash, Backslash>>),
                            ",", <<Backslash, ",">>),
                    ";", <<Backslash, ";">>),
            Newline, <<Backslash, "n">>)

RECURSIVE JoinSeqs(_, _)
\* sep.join(parts) over sequences of characters.
JoinSeqs(parts, sep) ==
    IF parts = <<>> THEN <<>>
    ELSE IF Len(parts) = 1 THEN parts[1]
    ELSE parts[1] \o sep \o JoinSeqs(Tail(parts), sep)

\* One line when the test holds, none otherwise.
LineIf(test, line) == IF test THEN <<line>> ELSE <<>>

\* The lines one pass of the loop appends.
EventLines(event, clock) ==
    <<<<"BEGIN:VEVENT">>>>
    \o LineIf(Present(event.url), <<"UID:">> \o GetOr(event.url, <<>>))
    \o <<(IF Present(event.dtstamp)
          THEN <<"DTSTAMP:">> \o Val(event.dtstamp)
          ELSE <<"DTSTAMP:">> \o UtcStamp(clock))>>
    \o LineIf(Present(event.dtstart), DateLine("DTSTART", GetOr(event.dtstart, <<>>)))
    \o LineIf(Present(event.dtend), DateLine("DTEND", GetOr(event.dtend, <<>>)))
    \o LineIf(Present(event.summary), <<"SUMMARY:">> \o GetOr(event.summary, <<>>))
    \o LineIf(Present(event.description),
              <<"DESCRIPTION:">> \o EscapedDescription(GetOr(event.description, <<>>)))
    \o LineIf(Present(event.location), <<"LOCATION:">> \o GetOr(event.location, <<>>))
    \o LineIf(Present(event.url), <<"URL:">> \o GetOr(event.url, <<>>))
    \o LineIf(event.categories # <<>>,
              <<"CATEGORIES:">> \o JoinSeqs(event.categories, <<",">>))
    \o LineIf(Present(event.rrule), <<"RRULE:">> \o GetOr(event.rrule, <<>>))
    \o <<<<"END:VEVENT">>>>

RECURSIVE AllEventLines(_, _)
\* for event in events: the lines of every event, in list order.
AllEventLines(evs, clock) ==
    IF evs = <<>> THEN <<>>
    ELSE EventLines(Head(evs), clock) \o AllEventLines(Tail(evs), clock)

RECURSIVE AllEventLinesReversed(_, _)
AllEventLinesReversed(evs, clock) ==
    IF evs = <<>> THEN <<>>
    ELSE AllEventLinesReversed(Tail(evs), clock) \o EventLines(Head(evs), clock)

CalendarHeader(calendar_name) ==
    << <<"BEGIN:VCALENDAR">>, <<"VERSION:2.0">>, <<"PRODID:-//InfraCalendar//EN">>,
       <<"X-WR-CALNAME:">> \o calendar_name, <<"CALSCALE:GREGORIAN">>,
       <<"METHOD:PUBLISH">> >>

CRLF == <<"\r", "\n">>

\* The loop walking the list from its last event to its first.
format_ical_reversed(evs, calendar_name, clock) ==
    JoinSeqs(CalendarHeader(calendar_name) \o AllEventLinesReversed(evs, clock)
                 \o <<<<"END:VCALENDAR">>>>,
             CRLF)

format_ical(evs, calendar_name, clock) ==
    JoinSeqs(CalendarHeader(calendar_name) \o AllEventLines(evs, clock)
                 \o <<<<"END:VCALENDAR">>>>,
             CRLF)

----------------------------------------------------------------------------
(* The feeds format_ical is applied to *)

\* Longest list of events handed to format_ical.
MaxFeedLen == 2

FeedUrl == <<"h", ":", "/", "1">>

BaseEvent ==
    [Event EXCEPT !.url = Some(FeedUrl), !.summary = Some(<<"A">>),
                  !.dtstart = Some(DateChars(StartYear, 3, 5))]

FeedEvents ==
    {Event, BaseEvent,
     [BaseEvent EXCEPT !.url = None],
     [BaseEvent EXCEPT !.url = Some(<<>>)],
     [BaseEvent EXCEPT !.dtstamp = Some(<<"2", "0", "2", "6", "0", "1", "0", "1", "T",
                                          "0", "0", "0", "0", "0", "0", "Z">>)],
     [BaseEvent EXCEPT !.dtstart = Some(DateTimeChars(StartYear, 3, 5, 10, 0, 0))],
     [BaseEvent EXCEPT !.dtstart = Some(DateChars(StartYear, 3, 5)
                                        \o <<" ", "1", "0", ":", "0", "0">>)],
     [BaseEvent EXCEPT !.dtstart = Some(<<"-">>)],
     [BaseEvent EXCEPT !.dtend = Some(DateChars(StartYear, 3, 6))],
     [BaseEvent EXCEPT !.summary = Some(<<"B", Newline, "C">>)],
     [BaseEvent EXCEPT !.summary = Some(<<>>)],
     [BaseEvent EXCEPT !.summary = Some(<<"D">>),
                       !.description = Some(<<"d", ",", Newline, ";", Backslash>>)],
     [BaseEvent EXCEPT !.summary = Some(<<"E">>), !.location = Some(<<"L">>)],
     [BaseEvent EXCEPT !.summary = Some(<<"F">>), !.location = Some(<<"L", Newline>>)],
     [BaseEvent EXCEPT !.summary = Some(<<"G">>),
                       !.categories = <<<<"c">>, <<"d">>>>],
     [BaseEvent EXCEPT !.summary = Some(<<"H">>), !.categories = <<<<>>>>],
     [BaseEvent EXCEPT !.summary = Some(<<"I">>),
                       !.rrule = Some(<<"F", "R", "E", "Q", "=", "D", "A", "I", "L", "Y">>)]}

CalendarNames == {<<"I", "n", "f", "r", "a", "C", "a", "l", "e", "n", "d", "a", "r">>}

FeedInputs ==
    {[events |-> es, calendar_name |-> n] :
        es \in SeqsUpTo(FeedEvents, MaxFeedLen), n \in CalendarNames}

SpecIcalInit ==
    /\ f_in \in FeedInputs
    /\ f_now = StartTime
    /\ f_out = NotCalled
    /\ RepoIdle /\ GateIdle /\ ClientIdle /\ TasksIdle /\ PipeIdle

CallFormatIcal ==
    /\ f_out = NotCalled
    /\ f_out' = Returned(format_ical(f_in.events, f_in.calendar_name, f_now))
    /\ UNCHANGED <<f_in, f_now>>

SpecIcalNext ==
    CallFormatIcal
    /\ UNCHANGED <<repoVars, gateVars, clientVars, taskVars, pipeVars>>

SpecIcal == SpecIcalInit /\ [][SpecIcalNext]_vars

----------------------------------------------------------------------------
(* Claims about format_ical *)

\* The members of a set of numbers in increasing order.
Sorted(S) ==
    [k \in 1..Cardinality(S) |->
        CHOOSE i \in S : Cardinality({j \in S : j < i}) = k - 1]

\* The lines of a document: the texts between its CR LF pairs.
SplitLines(doc) ==
    LET breaks == Sorted({i \in 1..(Len(doc) - 1) :
                             doc[i] = "\r" /\ doc[i + 1] = "\n"})
        n == Len(breaks)
    IN [k \in 1..(n + 1) |->
           SubSeq(doc, IF k = 1 THEN 1 ELSE breaks[k - 1] + 2,
                       IF k = n + 1 THEN Len(doc) ELSE breaks[k] - 1)]

DocLines == SplitLines(f_out.value)

FeedCalled == f_out.status = "returned" /\ f_in # None

\* The line numbers of the lines equal to the given line.
LinesEqual(ls, line) == {i \in 1..Len(ls) : ls[i] = line}

\* The lines from line number a to line number b have the line (piece
\* followed by the value) exactly when the value is to be emitted, and no
\* other line starting with that piece.
BlockCarries(ls, a, b, piece, emitted, value) ==
    LET lines == {i \in a..b : ls[i] # <<>> /\ ls[i][1] = piece}
    IN /\ emitted => Cardinality(lines) = 1
       /\ ~emitted => lines = {}
       /\ \A i \in lines : ls[i] = <<piece>> \o value

\* C16: the document is the wrapper header, then exactly one
\* BEGIN:VEVENT ... END:VEVENT block per input event in list order, then
\* END:VCALENDAR; the k-th block carries the summary, location, url and
\* recurrence rule of the k-th event.
C16_OneBlockPerEventInOrder ==
    FeedCalled =>
        LET evs == f_in.events
            n == Len(evs)
            ls == DocLines
            first == Sorted(LinesEqual(ls, <<"BEGIN:VEVENT">>))
            last == Sorted(LinesEqual(ls, <<"END:VEVENT">>))
        IN /\ Len(ls) >= 7
           /\ SubSeq(ls, 1, 6) = CalendarHeader(f_in.calendar_name)
           /\ ls[Len(ls)] = <<"END:VCALENDAR">>
           /\ Len(first) = n
           /\ Len(last) = n
           /\ n > 0 => first[1] = 7 /\ last[n] = Len(ls) - 1
           /\ n = 0 => Len(ls) = 7
           /\ \A k \in 1..n :
                LET a == first[k] + 1
                    b == last[k] - 1
                IN
                /\ first[k] < last[k]
                /\ k < n => first[k + 1] = last[k] + 1
                /\ BlockCarries(ls, a, b, "SUMMARY:", Present(evs[k].summary),
                                GetOr(evs[k].summary, <<>>))
                /\ BlockCarries(ls, a, b, "LOCATION:", Present(evs[k].location),
                                GetOr(evs[k].location, <<>>))
                /\ BlockCarries(ls, a, b, "URL:", Present(evs[k].url),
                                GetOr(evs[k].url, <<>>))
                /\ BlockCarries(ls, a, b, "UID:", Present(evs[k].url),
                                GetOr(evs[k].url, <<>>))
                /\ BlockCarries(ls, a, b, "RRULE:", Present(evs[k].rrule),
                                GetOr(evs[k].rrule, <<>>))

\* Two different events, the second without a url, have been formatted.
C16_Witness ==
    /\ FeedCalled
    /\ Len(f_in.events) = 2
    /\ f_in.events[1].summary = Some(<<"E">>)
    /\ f_in.events[2].summary = Some(<<"A">>) /\ f_in.events[2].url = None
    /\ Cardinality(LinesEqual(DocLines, <<"BEGIN:VEVENT">>)) = 2

PropertyPieces ==
    {"UID:", "DTSTAMP:", "DTSTART:", "DTSTART;VALUE=DATE:", "DTEND:",
     "DTEND;VALUE=DATE:", "SUMMARY:", "DESCRIPTION:", "LOCATION:", "URL:",
     "CATEGORIES:", "RRULE:", "X-WR-CALNAME:"}

\* A property line whose value is empty: the line ends with its name piece.
EmptyValued(line) == line # <<>> /\ line[Len(line)] \in PropertyPieces

BlockHas(ls, a, b, pieces) ==
    \E i \in a..b : ls[i] # <<>> /\ ls[i][1] \in pieces

\* C17: no property line of the document has an empty value; each of UID,
\* DTSTART, DTEND, SUMMARY, DESCRIPTION, LOCATION, URL, CATEGORIES and RRULE
\* is in an event's block only when the field is present and non-empty,
\* and every block has a DTSTAMP line.
C17_NoEmptyPropertyValue ==
    FeedCalled =>
        LET ls == DocLines
            first == Sorted(LinesEqual(ls, <<"BEGIN:VEVENT">>))
            last == Sorted(LinesEqual(ls, <<"END:VEVENT">>))
        IN
        /\ \A i \in 1..Len(ls) : ~EmptyValued(ls[i])
        /\ \A k \in 1..Len(f_in.events) :
             LET e == f_in.events[k]
                 a == first[k] + 1
                 b == last[k] - 1
             IN /\ BlockHas(ls, a, b, {"DTSTAMP:"})
                /\ BlockHas(ls, a, b, {"UID:"}) => Present(e.url)
                /\ BlockHas(ls, a, b, {"URL:"}) => Present(e.url)
                /\ BlockHas(ls, a, b, {"DTSTART:", "DTSTART;VALUE=DATE:"})
                       => Present(e.dtstart)
                /\ BlockHas(ls, a, b, {"DTEND:", "DTEND;VALUE=DATE:"})
                       => Present(e.dtend)
                /\ BlockHas(ls, a, b, {"SUMMARY:"}) => Present(e.summary)
                /\ BlockHas(ls, a, b, {"DESCRIPTION:"}) => Present(e.description)
                /\ BlockHas(ls, a, b, {"LOCATION:"}) => Present(e.location)
                /\ BlockHas(ls, a, b, {"CATEGORIES:"}) => e.categories # <<>>
                /\ BlockHas(ls, a, b, {"RRULE:"}) => Present(e.rrule)

\* C18: every line break of the document is the pair CR LF: no LF without
\* a CR before it and no CR without a LF after it, whatever the events'
\* summary, location, url and rrule hold.
C18_EveryLineBreakIsCRLF ==
    FeedCalled =>
        LET doc == f_out.value
        IN \A i \in 1..Len(doc) :
             /\ doc[i] = "\n" => i > 1 /\ doc[i - 1] = "\r"
             /\ doc[i] = "\r" => i < Len(doc) /\ doc[i + 1] = "\n"

----------------------------------------------------------------------------
(* IcalNormalizer.normalize_duration: integer seconds or a compact text such
   as "1h 30m" to a duration token. The argument is tagged: none, an
   integer, a timedelta (its whole seconds) or a text. *)

PyTimedelta(n) == [t |-> "timedelta", n |-> n]

RECURSIVE DigitRunEnd(_, _)
\* \d+ from position p: the position after the digits (p when there are none).
DigitRunEnd(s, p) ==
    IF p <= Len(s) /\ IsDigit(s[p]) THEN DigitRunEnd(s, p + 1) ELSE p

RECURSIVE SpaceRunEnd(_, _)
\* \s* from position p: the position after the white space.
SpaceRunEnd(s, p) ==
    IF p <= Len(s) /\ IsSpace(s[p]) THEN SpaceRunEnd(s, p + 1) ELSE p

\* (?:(\d+)\s*u)? at position p: the digits captured and the position after
\* the group, or no capture and the same position.
UnitGroup(s, p, u) ==
    LET q == DigitRunEnd(s, p)
        r == SpaceRunEnd(s, q)
    IN IF q > p /\ r <= Len(s) /\ s[r] = u
       THEN [text |-> SubSeq(s, p, q - 1), next |-> r + 1]
       ELSE [text |-> <<>>, next |-> p]

\* re.findall(pattern, s): every group of the pattern is optional, so the
\* pattern matches at position 0 of any text, the empty text included, and
\* the list always has a first match; only that match is used.
DurationMatches(s) ==
    LET gd == UnitGroup(s, 1, "d")
        gh == UnitGroup(s, SpaceRunEnd(s, gd.next), "h")
        gm == UnitGroup(s, SpaceRunEnd(s, gh.next), "m")
        gs == UnitGroup(s, SpaceRunEnd(s, gm.next), "s")
    IN << <<gd.text, gh.text, gm.text, gs.text>> >>

\* f"{n}" for an integer.
IntChars(n) == IF n < 0 THEN <<"-">> \o DigitsOf(0 - n) ELSE DigitsOf(n)

\* build PnDTnHnMnS (use PT if no days)
DurationToken(secs) ==
    LET days == secs \div 86400
        rem == secs % 86400
        hours == rem \div 3600
        minutes == (rem % 3600) \div 60
        seconds == (rem % 3600) % 60
        time_parts ==
            (IF hours # 0 THEN IntChars(hours) \o <<"H">> ELSE <<>>)
            \o (IF minutes # 0 THEN IntChars(minutes) \o <<"M">> ELSE <<>>)
            \o (IF seconds # 0 THEN IntChars(seconds) \o <<"S">> ELSE <<>>)
        parts ==
            (IF days # 0 THEN IntChars(days) \o <<"D">> ELSE <<>>)
            \o (IF time_parts # <<>> THEN <<"T">> \o time_parts ELSE <<>>)
    IN IF parts # <<>> THEN PyStr(<<"P">> \o parts) ELSE PyNone

\* The text branch: strip, lower, match, and the seconds of the first match;
\* a text starting with "p" is returned upper-cased when nothing matched.
DurationOfText(text) ==
    LET s == Lower(Strip(text))
        m == DurationMatches(s)
    IN IF m # <<>>
       THEN DurationToken(ParseNum(m[1][1]) * 86400 + ParseNum(m[1][2]) * 3600
                          + ParseNum(m[1][3]) * 60 + ParseNum(m[1][4]))
       ELSE IF s # <<>> /\ s[1] = "p" THEN PyStr(Upper(s))
       ELSE PyNone

\* The token built from the seconds of the day only.
normalize_duration_without_days(value) ==
    CASE value.t = "none" -> PyNone
      [] value.t \in {"int", "timedelta"} -> DurationToken(value.n % 86400)
      [] OTHER -> DurationOfText(value.s)

normalize_duration(value) ==
    CASE value.t = "none" -> PyNone
      [] value.t \in {"int", "timedelta"} -> DurationToken(value.n)
      [] OTHER -> DurationOfText(value.s)

\* Most days in a duration handed to normalize_duration.
MaxDays == 2

DurationParts ==
    {[days |-> a, hours |-> b, minutes |-> c, seconds |-> e] :
        a \in 0..MaxDays, b \in {0, 1, 23}, c \in {0, 1, 30, 59}, e \in {0, 1, 59}}

SecondsOf(x) == x.days * 86400 + x.hours * 3600 + x.minutes * 60 + x.seconds

\* "<n>d <n>h <n>m <n>s" with the zero components left out, the components
\* separated by sep.
CompactText(x, sep) ==
    LET words ==
            (IF x.days # 0 THEN <<DigitsOf(x.days) \o <<"d">>>> ELSE <<>>)
            \o (IF x.hours # 0 THEN <<DigitsOf(x.hours) \o <<"h">>>> ELSE <<>>)
            \o (IF x.minutes # 0 THEN <<DigitsOf(x.minutes) \o <<"m">>>> ELSE <<>>)
            \o (IF x.seconds # 0 THEN <<DigitsOf(x.seconds) \o <<"s">>>> ELSE <<>>)
    IN JoinSeqs(words, sep)

OtherDurationTexts ==
    {<<"9", "0", "m">>, <<"1", "H", "3", "0", "M">>, <<" ", "2", "h", " ">>,
     <<"1", " ", "h", " ", "3", "0", " ", "m">>,
     <<"3", "0", "m", " ", "1", "h">>, <<"x", " ", "1", "h">>,
     <<"p", "t", "1", "h", "3", "0", "m">>, <<"P", "1", "D">>,
     <<"P", "T", "1", "H">>, <<"a", "b", "c">>, <<>>}

DurationInputs ==
    {PyNone, PyInt(0), PyInt(0 - 5)}
    \cup {PyInt(SecondsOf(x)) : x \in DurationParts}
    \cup {PyTimedelta(SecondsOf(x)) : x \in {y \in DurationParts : y.days = 0}}
    \cup {PyStr(CompactText(x, sep)) : x \in DurationParts, sep \in {<<>>, <<" ">>}}
    \cup {PyStr(text) : text \in OtherDurationTexts}

SpecDurationInit ==
    /\ f_in \in DurationInputs
    /\ f_now = StartTime
    /\ f_out = NotCalled
    /\ RepoIdle /\ GateIdle /\ ClientIdle /\ TasksIdle /\ PipeIdle

CallNormalizeDuration ==
    /\ f_out = NotCalled
    /\ f_out' = Returned(normalize_duration(f_in))
    /\ UNCHANGED <<f_in, f_now>>

SpecDurationNext ==
    CallNormalizeDuration
    /\ UNCHANGED <<repoVars, gateVars, clientVars, taskVars, pipeVars>>

SpecDuration == SpecDurationInit /\ [][SpecDurationNext]_vars

----------------------------------------------------------------------------
(* Claims about normalize_duration *)

\* <digits><u> at position p of a token: the digits and the position after
\* the unit letter, or nothing and the same position.
TokenGroup(tok, p, u) ==
    LET q == DigitRunEnd(tok, p)
    IN IF q > p /\ q <= Len(tok) /\ tok[q] = u
       THEN [text |-> SubSeq(tok, p, q - 1), next |-> q + 1]
       ELSE [text |-> <<>>, next |-> p]

\* A token read as P[nD][T[nH][nM][nS]]: whether it has that form with at
\* least one component, each component written without a leading zero, and
\* the numbers of its components (0 for a component left out).
TokenFields(tok) ==
    LET gD == TokenGroup(tok, 2, "D")
        hasT == gD.next <= Len(tok) /\ tok[gD.next] = "T"
        gH == TokenGroup(tok, gD.next + 1, "H")
        gM == TokenGroup(tok, gH.next, "M")
        gS == TokenGroup(tok, gM.next, "S")
        texts == IF hasT THEN <<gD.text, gH.text, gM.text, gS.text>>
                 ELSE <<gD.text, <<>>, <<>>, <<>>>>
    IN [ok |-> /\ tok # <<>> /\ tok[1] = "P"
               /\ IF hasT
                  THEN /\ gS.next = Len(tok) + 1
                       /\ gH.text \o gM.text \o gS.text # <<>>
                  ELSE /\ gD.next = Len(tok) + 1
                       /\ gD.text # <<>>
               /\ \A i \in 1..4 : texts[i] # <<>> => texts[i][1] # "0",
        days |-> ParseNum(texts[1]), hours |-> ParseNum(texts[2]),
        minutes |-> ParseNum(texts[3]), seconds |-> ParseNum(texts[4])]

DurationCalled == f_out.status = "returned" /\ f_in # None

\* C19: for a positive integer number of seconds the result is a token
\* P[nD][T[nH][nM][nS]] whose components add up to the seconds, with
\* nH < 24, nM < 60, nS < 60 and zero components left out; a compact text
\* ("1h 30m", "90m") gives the token of the same number of seconds.
C19_TokenAddsUpToSeconds ==
    DurationCalled =>
        /\ (f_in.t = "int" /\ f_in.n > 0) =>
             /\ f_out.value.t = "str"
             /\ LET x == TokenFields(f_out.value.s)
                IN /\ x.ok
                   /\ SecondsOf(x) = f_in.n
                   /\ x.hours < 24 /\ x.minutes < 60 /\ x.seconds < 60
        /\ f_in = PyInt(3600) => f_out.value = PyStr(<<"P", "T", "1", "H">>)
        /\ f_in.t = "str" =>
             /\ \A x \in DurationParts, sep \in {<<>>, <<" ">>} :
                  f_in.s = CompactText(x, sep)
                      => f_out.value = normalize_duration(PyInt(SecondsOf(x)))
             /\ f_in.s \in {<<"1", "h", " ", "3", "0", "m">>, <<"9", "0", "m">>}
                  => f_out.value = PyStr(<<"P", "T", "1", "H", "3", "0", "M">>)

\* A day, an hour, a minute and a second have been given as seconds.
C19_Witness ==
    /\ f_in = PyInt(86400 + 3600 + 60 + 1)
    /\ f_out = Returned(PyStr(<<"P", "1", "D", "T", "1", "H", "1", "M", "1", "S">>))

\* C20: a text that already begins with P or PT, in any letter case, comes
\* back upper-cased and otherwise unchanged.
C20_PrefixedTextPassesThrough ==
    (/\ DurationCalled /\ f_in.t = "str"
     /\ f_in.s # <<>> /\ f_in.s[1] \in {"p", "P"})
        => f_out.value = PyStr(Upper(f_in.s))

----------------------------------------------------------------------------
(* IcalNormalizer.fold_line: a long line cut into chunks of `width`
   characters joined by CR LF and one space. *)

FoldJoint == <<"\r", "\n", " ">>

\* [line[i : i + width] for i in range(0, len(line), width)]
FoldChunks(line, width) ==
    [j \in 1..((Len(line) + width - 1) \div width) |->
        SubSeq(line, (j - 1) * width + 1,
               IF j * width < Len(line) THEN j * width ELSE Len(line))]

\* The chunks joined by CR LF alone.
fold_line_without_space(line, width) ==
    IF line = <<>> \/ Len(line) <= width THEN line
    ELSE JoinSeqs(FoldChunks(line, width), CRLF)

fold_line(line, width) ==
    IF line = <<>> \/ Len(line) <= width THEN line
    ELSE JoinSeqs(FoldChunks(line, width), FoldJoint)

\* Longest line handed to fold_line, and the largest width.
MaxLineLen == 5

MaxFoldWidth == 3

FoldChars == {"\r", "\n", " ", "a"}

FoldInputs ==
    {[line |-> l, width |-> w] :
        l \in SeqsUpTo(FoldChars, MaxLineLen), w \in 1..MaxFoldWidth}

SpecFoldInit ==
    /\ f_in \in FoldInputs
    /\ f_now = StartTime
    /\ f_out = NotCalled
    /\ RepoIdle /\ GateIdle /\ ClientIdle /\ TasksIdle /\ PipeIdle

CallFoldLine ==
    /\ f_out = NotCalled
    /\ f_out' = Returned(fold_line(f_in.line, f_in.width))
    /\ UNCHANGED <<f_in, f_now>>

SpecFoldNext ==
    CallFoldLine
    /\ UNCHANGED <<repoVars, gateVars, clientVars, taskVars, pipeVars>>

SpecFold == SpecFoldInit /\ [][SpecFoldNext]_vars

\* The first position at or after p where sub starts in s, or 0.
NextOccurrence(s, sub, p) ==
    LET hits == {i \in p..(Len(s) - Len(sub) + 1) :
                    SubSeq(s, i, i + Len(sub) - 1) = sub}
    IN IF hits = {} THEN 0 ELSE CHOOSE i \in hits : \A j \in hits : i <= j

RECURSIVE DeleteFrom(_, _, _)
\* s.replace(sub, "") from position p on: every occurrence deleted, left
\* to right.
DeleteFrom(s, sub, p) ==
    IF NextOccurrence(s, sub, p) = 0 THEN SubSeq(s, p, Len(s))
    ELSE SubSeq(s, p, NextOccurrence(s, sub, p) - 1)
             \o DeleteFrom(s, sub, NextOccurrence(s, sub, p) + Len(sub))

FoldCalled == f_out.status = "returned" /\ f_in # None

\* C21: a line of at most `width` characters is returned unchanged; a
\* longer one comes back as its consecutive chunks of `width` characters
\* (only the last may be shorter) with CR LF and one space between them,
\* and deleting every CR LF space from the result gives the line back when
\* the line holds no CR LF space itself.
C21_FoldedChunksGiveBackLine ==
    FoldCalled =>
        LET line == f_in.line
            w == f_in.width
            out == f_out.value
            k == (Len(line) + w - 1) \div w
        IN /\ Len(line) <= w => out = line
           /\ Len(line) > w =>
                /\ Len(out) = Len(line) + 3 * (k - 1)
                /\ \A j \in 1..k :
                     LET from == (j - 1) * (w + 3)
                         size == IF j < k THEN w ELSE Len(line) - (k - 1) * w
                     IN /\ size >= 1 /\ size <= w
                        /\ SubSeq(out, from + 1, from + size)
                               = SubSeq(line, (j - 1) * w + 1, (j - 1) * w + size)
                        /\ j < k => SubSeq(out, from + w + 1, from + w + 3)
                                        = FoldJoint
                /\ NextOccurrence(line, FoldJoint, 1) = 0
                       => DeleteFrom(out, FoldJoint, 1) = line

\* A line of five characters has been folded at width two.
C21_Witness ==
    /\ FoldCalled
    /\ f_in.line = <<"a", " ", "a", "\r", "a">> /\ f_in.width = 2
    /\ f_out.value = <<"a", " ", "\r", "\n", " ", "a", "\r", "\r", "\n", " ", "a">>

----------------------------------------------------------------------------
(* PageCategorizer.is_calendar: seven pattern searches over the text. A
   search is followed through the text as the set of positions a match in
   progress can have reached; the search succeeds when some match reaches
   the end of the pattern. Position p is the place before character p. *)

IsLetter(c) == \E i \in 1..26 : LowerLetters[i] = c \/ UpperLetters[i] = c

\* \w
IsWordChar(c) == IsLetter(c) \/ IsDigit(c) \/ c = "_"

WordAt(s, k) == k >= 1 /\ k <= Len(s) /\ IsWordChar(s[k])

\* \b: the positions of P with a word character on exactly one side.
AtBoundary(s, P) == {p \in P : WordAt(s, p - 1) # WordAt(s, p)}

\* One of the texts `lits` (in lower case when ignorecase) read from a
\* position of P.
AfterAnyOf(s, P, lits, ignorecase) ==
    UNION {{p + Len(lit) : lit \in
               {l \in lits :
                   /\ p + Len(l) - 1 <= Len(s)
                   /\ (IF ignorecase THEN Lower(SubSeq(s, p, p + Len(l) - 1))
                       ELSE SubSeq(s, p, p + Len(l) - 1)) = l}} : p \in P}

\* Between lo and hi characters of a class read from a position of P.
AfterClass(s, P, InClass(_), lo, hi) ==
    UNION {{q \in (p + lo)..(IF p + hi <= Len(s) THEN p + hi ELSE Len(s) + 1) :
               \A k \in p..(q - 1) : InClass(s[k])} : p \in P}

Starts(s) == AtBoundary(s, 1..(Len(s) + 1))

IsDash(c) == c \in {"/", "-"}

IsIsoSeparator(c) == c = "T" \/ IsSpace(c)

IsAmPmChar(c) == c \in {"A", "P", "M", "a", "p", "m"}

KeywordTexts ==
    {<<"c", "a", "l", "e", "n", "d", "a", "r">>,
     <<"e", "v", "e", "n", "t">>,
     <<"e", "v", "e", "n", "t", "s">>,
     <<"s", "c", "h", "e", "d", "u", "l", "e">>,
     <<"a", "g", "e", "n", "d", "a">>,
     <<"m", "e", "e", "t", "i", "n", "g">>,
     <<"s", "t", "a", "r", "t", "s">>,
     <<"e", "n", "d", "s">>,
     <<"d", "a", "t", "e">>}

WeekdayTexts ==
    {<<"m", "o", "n", "d", "a", "y">>,
     <<"t", "u", "e", "s", "d", "a", "y">>,
     <<"w", "e", "d", "n", "e", "s", "d", "a", "y">>,
     <<"t", "h", "u", "r", "s", "d", "a", "y">>,
     <<"f", "r", "i", "d", "a", "y">>,
     <<"s", "a", "t", "u", "r", "d", "a", "y">>,
     <<"s", "u", "n", "d", "a", "y">>}

MonthTexts == {MonthAbbrevs[i] : i \in 1..12}

\* \b(calendar|event|events|schedule|agenda|meeting|starts|ends|date)\b
KEYWORDS(s) ==
    AtBoundary(s, AfterAnyOf(s, Starts(s), KeywordTexts, TRUE)) # {}

\* \b\d{4}-\d{2}-\d{2}(?:[T\s]\d{2}:\d{2}:?\d{0,2})?\b
ISO_RE(s) ==
    LET year == AfterClass(s, Starts(s), IsDigit, 4, 4)
        month == AfterClass(s, AfterAnyOf(s, year, {<<"-">>}, FALSE), IsDigit, 2, 2)
        day == AfterClass(s, AfterAnyOf(s, month, {<<"-">>}, FALSE), IsDigit, 2, 2)
        hour == AfterClass(s, AfterClass(s, day, IsIsoSeparator, 1, 1), IsDigit, 2, 2)
        minute == AfterClass(s, AfterAnyOf(s, hour, {<<":">>}, FALSE), IsDigit, 2, 2)
        colon == minute \cup AfterAnyOf(s, minute, {<<":">>}, FALSE)
        second == AfterClass(s, colon, IsDigit, 0, 2)
    IN AtBoundary(s, day \cup second) # {}

\* \b(?:Jan|Feb|...|Sep|Sept|...|Dec)[a-z]*\.?'?\s+\d{1,2}(?:,?\s*\d{4})?\b
MDY_RE(s) ==
    LET name == AfterClass(s, AfterAnyOf(s, Starts(s), MonthTexts, TRUE),
                           IsLetter, 0, Len(s))
        dot == name \cup AfterAnyOf(s, name, {<<".">>}, FALSE)
        quote == dot \cup AfterAnyOf(s, dot, {<<"'">>}, FALSE)
        day == AfterClass(s, AfterClass(s, quote, IsSpace, 1, Len(s)), IsDigit, 1, 2)
        comma == day \cup AfterAnyOf(s, day, {<<",">>}, FALSE)
        year == AfterClass(s, AfterClass(s, comma, IsSpace, 0, Len(s)), IsDigit, 4, 4)
    IN AtBoundary(s, day \cup year) # {}

\* \b\d{1,2}[/-]\d{1,2}[/-]\d{2,4}\b
NUMERIC_RE(s) ==
    LET first == AfterClass(s, Starts(s), IsDigit, 1, 2)
        second == AfterClass(s, AfterClass(s, first, IsDash, 1, 1), IsDigit, 1, 2)
        third == AfterClass(s, AfterClass(s, second, IsDash, 1, 1), IsDigit, 2, 4)
    IN AtBoundary(s, third) # {}

\* \b(?:19|20)\d{2}\b
YEAR_RE(s) ==
    AtBoundary(s, AfterClass(s, AfterAnyOf(s, Starts(s),
                                           {<<"1", "9">>, <<"2", "0">>}, FALSE),
                             IsDigit, 2, 2)) # {}

\* \b(?:Monday|Tuesday|Wednesday|Thursday|Friday|Saturday|Sunday)\b
WEEKDAY_RE(s) ==
    AtBoundary(s, AfterAnyOf(s, Starts(s), WeekdayTexts, TRUE)) # {}

\* \b\d{1,2}:\d{2}(?:\s?[APMapm]{2})?\b
TIME_RE(s) ==
    LET hour == AfterClass(s, Starts(s), IsDigit, 1, 2)
        minute == AfterClass(s, AfterAnyOf(s, hour, {<<":">>}, FALSE), IsDigit, 2, 2)
        ampm == AfterClass(s, AfterClass(s, minute, IsSpace, 0, 1), IsAmPmChar, 2, 2)
    IN AtBoundary(s, minute \cup ampm) # {}

\* The searches of a text that is a str.
AnySearch(s) ==
    \/ KEYWORDS(s) \/ ISO_RE(s) \/ MDY_RE(s) \/ NUMERIC_RE(s)
    \/ WEEKDAY_RE(s) \/ TIME_RE(s) \/ YEAR_RE(s)

\* The text the searches run on: page.plain_text or "" when a page is
\* given, the text argument otherwise.
SearchedText(page, text) ==
    IF ~IsNone(page)
    THEN PyStr(GetOr(Val(page).plain_text, <<>>))
    ELSE text

\* The classifier without the search for a bare year.
is_calendar_without_year(page, text) ==
    LET x == SearchedText(page, text)
    IN IF x.t # "str" THEN FALSE
       ELSE \/ KEYWORDS(x.s) \/ ISO_RE(x.s) \/ MDY_RE(x.s) \/ NUMERIC_RE(x.s)
            \/ WEEKDAY_RE(x.s) \/ TIME_RE(x.s)

is_calendar(page, text) ==
    LET x == SearchedText(page, text)
    IN IF x.t # "str" THEN FALSE
       ELSE \/ KEYWORDS(x.s) \/ ISO_RE(x.s) \/ MDY_RE(x.s) \/ NUMERIC_RE(x.s)
            \/ WEEKDAY_RE(x.s) \/ TIME_RE(x.s) \/ YEAR_RE(x.s)

----------------------------------------------------------------------------
(* The texts is_calendar is applied to: words separated by one space *)

\* Most words in a text handed to is_calendar.
MaxWords == 2

\* Words that are a cue on their own.
CueWords ==
    {<<"e", "v", "e", "n", "t">>,
     <<"E", "V", "E", "N", "T", "S">>,
     <<"A", "g", "e", "n", "d", "a">>,
     <<"2", "0", "2", "6", "-", "0", "1", "-", "1", "0">>,
     <<"1", "8", "5", "0", "-", "0", "1", "-", "1", "0", "T", "1", "0", ":", "0", "0">>,
     <<"1", "/", "1", "0", "/", "2", "6">>,
     <<"f", "r", "i", "d", "a", "y">>,
     <<"M", "O", "N", "D", "A", "Y">>,
     <<"1", "0", ":", "3", "0">>,
     <<"9", ":", "0", "5", "P", "M">>,
     <<"1", "9", "0", "0">>,
     <<"2", "0", "9", "9">>}

\* Month names, a cue only when a day number follows.
MonthWords ==
    {<<"M", "a", "y">>,
     <<"j", "a", "n">>,
     <<"S", "E", "P", "T", ".">>}

\* Words that are no cue on their own and start with a day number: after a
\* month name they make a month-name date ("May 12345" is read as May 1
\* with the year 2345).
DayWords ==
    {<<"5">>,
     <<"5", ",">>,
     <<"1", "/", "2">>,
     <<"1", "0", ":", "3">>,
     <<"1", "2", "3", "4", "5">>}

\* Words that are no cue.
PlainWords ==
    {<<"W", "e", "l", "c", "o", "m", "e">>,
     <<"d", "a", "t", "e", "s">>,
     <<"e", "v", "e", "n", "t", "f", "u", "l">>,
     <<"1", "8", "9", "9">>,
     <<"2", "1", "0", "0">>,
     <<"S", "u", "n">>}

CategorizerWords == CueWords \cup MonthWords \cup DayWords \cup PlainWords

SamplePages ==
    {[plain_text |-> None], [plain_text |-> Some(<<>>)]}
    \cup {[plain_text |-> Some(w)] : w \in CategorizerWords}

CategorizerInputs ==
    \* words: the words the text is made of
    {[page |-> None, words |-> ws, text |-> PyStr(JoinSeqs(ws, <<" ">>))] :
        ws \in SeqsUpTo(CategorizerWords, MaxWords)}
    \cup {[page |-> None, words |-> <<>>, text |-> x] : x \in {PyNone, PyInt(2026)}}
    \cup {[page |-> Some(pg), words |-> <<w>>, text |-> x] :
            pg \in SamplePages, w \in {<<"e", "v", "e", "n", "t">>},
            x \in {PyNone, PyStr(<<"e", "v", "e", "n", "t">>)}}

SpecCategorizerInit ==
    /\ f_in \in CategorizerInputs
    /\ f_now = StartTime
    /\ f_out = NotCalled
    /\ RepoIdle /\ GateIdle /\ ClientIdle /\ TasksIdle /\ PipeIdle

CallIsCalendar ==
    /\ f_out = NotCalled
    /\ f_out' = Returned(is_calendar(f_in.page, f_in.text))
    /\ UNCHANGED <<f_in, f_now>>

SpecCategorizerNext ==
    CallIsCalendar
    /\ UNCHANGED <<repoVars, gateVars, clientVars, taskVars, pipeVars>>

SpecCategorizer == SpecCategorizerInit /\ [][SpecCategorizerNext]_vars

CategorizerCalled == f_out.status = "returned" /\ f_in # None

\* A text made of the words ws has a cue: a word that is a cue on its own,
\* or a month name followed by a day number.
HasCue(ws) ==
    \/ \E i \in 1..Len(ws) : ws[i] \in CueWords
    \/ \E i \in 1..(Len(ws) - 1) : ws[i] \in MonthWords /\ ws[i + 1] \in DayWords

----------------------------------------------------------------------------
(* app/services/page_event_extractor.py: extract_events on a text that may
   hold embedded VEVENT blocks. Such a text is a sequence of items: a line
   of tokens, or a block, the lines between BEGIN:VEVENT and END:VEVENT. A
   line of a block has a key (upper-case letters and dashes; "" for a line
   FIELD_RE does not match), parameters and the tokens of its value. *)

TextLine(toks) == [kind |-> "line", toks |-> toks, fields |-> <<>>]

VEventBlock(fields) == [kind |-> "block", toks |-> <<>>, fields |-> fields]

FieldLine(key, params, val) == [key |-> key, params |-> params, val |-> val]

\* A line of a block that is no KEY:value line.
OtherLine(val) == FieldLine("", "", val)

IsBlock(item) == item.kind = "block"

IsTextLine(item) == item.kind = "line"

\* VEVENT_RE.finditer(text): the blocks, in text order.
VEVENT_RE(items) == SelectSeq(items, IsBlock)

\* FIELD_RE.findall(block): the KEY[;params]:value lines.
FIELD_RE(fields) == SelectSeq(fields, LAMBDA l : l.key # "")

\* entries.get(k, []): the values of the lines whose key is k, in order.
entries(fields, k) ==
    LET hits == SelectSeq(FIELD_RE(fields), LAMBDA l : l.key = k)
    IN [n \in 1..Len(hits) |-> hits[n].val]

\* single(k): the first value of the key, or None.
single(fields, k) ==
    LET vals == entries(fields, k)
    IN IF vals = <<>> THEN None ELSE Some(vals[1])

\* The value as the string v.strip().
FieldText(o) == IF IsNone(o) THEN None ELSE Some(JoinTokens(Val(o)))

\* [v.strip() for the values of k]
FieldTexts(fields, k) ==
    LET vals == entries(fields, k)
    IN [n \in 1..Len(vals) |-> JoinTokens(vals[n])]

\* cls._try_parse_datetime(single(k))
ParsedField(o, today) ==
    IF IsNone(o) THEN None ELSE _try_parse_datetime(Val(o), today)

\* cls._try_parse_datetime(raw) or raw
ParsedOrRaw(o, today) ==
    LET parsed == ParsedField(o, today)
    IN IF ~IsNone(parsed) THEN parsed ELSE FieldText(o)

\* int(seq_val) if seq_val is not None else None; None when int() raises.
SequenceOf(o) ==
    IF IsNone(o) THEN None
    ELSE IF Len(Val(o)) = 1 /\ Val(o)[1].k = "num" THEN Some(Val(o)[1].a)
    ELSE None

\* a or b on optional strings
OrElse(a, b) == IF IsNone(a) \/ a = Some("") THEN b ELSE a

FieldLineText(l) ==
    IF l.key = "" THEN JoinTokens(l.val)
    ELSE l.key \o l.params \o ":" \o JoinTokens(l.val)

RECURSIVE BlockText(_)
\* block.strip(): the lines of the block.
BlockText(fields) ==
    IF fields = <<>> THEN ""
    ELSE IF Len(fields) = 1 THEN FieldLineText(fields[1])
    ELSE FieldLineText(fields[1]) \o "\n" \o BlockText(Tail(fields))

\* The candidate of one block, its start alias holding parsed dates only.
BlockEvent_start_parsed_only(fields, page_url, today) ==
    [Event EXCEPT
        !.uid = FieldText(single(fields, "UID")),
        !.dtstamp = ParsedField(single(fields, "DTSTAMP"), today),
        !.dtstart = ParsedOrRaw(single(fields, "DTSTART"), today),
        !.dtend = ParsedOrRaw(single(fields, "DTEND"), today),
        !.duration = FieldText(single(fields, "DURATION")),
        !.summary = FieldText(single(fields, "SUMMARY")),
        !.description = FieldText(single(fields, "DESCRIPTION")),
        !.location = FieldText(single(fields, "LOCATION")),
        !.url = OrElse(FieldText(single(fields, "URL")), page_url),
        !.categories = FieldTexts(fields, "CATEGORIES"),
        !.status = FieldText(single(fields, "STATUS")),
        !.sequence = SequenceOf(single(fields, "SEQUENCE")),
        !.created = ParsedField(single(fields, "CREATED"), today),
        !.last_modified = ParsedField(single(fields, "LAST-MODIFIED"), today),
        !.organizer = FieldText(single(fields, "ORGANIZER")),
        !.attendees = FieldTexts(fields, "ATTENDEE"),
        !.rrule = FieldText(single(fields, "RRULE")),
        !.rdate = FieldTexts(fields, "RDATE"),
        !.exdate = FieldTexts(fields, "EXDATE"),
        !.raw = Some(BlockText(fields)),
        !.title = FieldText(single(fields, "SUMMARY")),
        !.start = ParsedField(single(fields, "DTSTART"), today)]

\* The candidate of one block (step 1 of extract_events).
BlockEvent(fields, page_url, today) ==
    [Event EXCEPT
        !.uid = FieldText(single(fields, "UID")),
        !.dtstamp = ParsedField(single(fields, "DTSTAMP"), today),
        !.dtstart = ParsedOrRaw(single(fields, "DTSTART"), today),
        !.dtend = ParsedOrRaw(single(fields, "DTEND"), today),
        !.duration = FieldText(single(fields, "DURATION")),
        !.summary = FieldText(single(fields, "SUMMARY")),
        !.description = FieldText(single(fields, "DESCRIPTION")),
        !.location = FieldText(single(fields, "LOCATION")),
        !.url = OrElse(FieldText(single(fields, "URL")), page_url),
        !.categories = FieldTexts(fields, "CATEGORIES"),
        !.status = FieldText(single(fields, "STATUS")),
        !.sequence = SequenceOf(single(fields, "SEQUENCE")),
        !.created = ParsedField(single(fields, "CREATED"), today),
        !.last_modified = ParsedField(single(fields, "LAST-MODIFIED"), today),
        !.organizer = FieldText(single(fields, "ORGANIZER")),
        !.attendees = FieldTexts(fields, "ATTENDEE"),
        !.rrule = FieldText(single(fields, "RRULE")),
        !.rdate = FieldTexts(fields, "RDATE"),
        !.exdate = FieldTexts(fields, "EXDATE"),
        !.raw = Some(BlockText(fields)),
        !.title = FieldText(single(fields, "SUMMARY")),
        !.start = ParsedOrRaw(single(fields, "DTSTART"), today)]

\* The lines of the text outside its blocks.
LinesOf(items) ==
    LET ls == SelectSeq(items, IsTextLine)
    IN [n \in 1..Len(ls) |-> ls[n].toks]

\* extract_events(text, page_url): the candidates of the blocks when there
\* is a block, the candidates of the date lines otherwise.
extract_events_of_text(items, page_url, today) ==
    IF items = <<>> THEN <<>>
    ELSE LET blocks == VEVENT_RE(items)
         IN IF blocks # <<>>
            THEN [n \in 1..Len(blocks) |->
                     BlockEvent(blocks[n].fields, page_url, today)]
            ELSE extract_events(LinesOf(items), page_url, today)

----------------------------------------------------------------------------
(* Texts with and without blocks *)

MaxItems == 3

ParsableDate == <<IsoDate("2026-01-10", 2026, 1, 10)>>

ParsableDateTime ==
    <<IsoDate("2026-01-10", 2026, 1, 10), ClockTime("10:00 AM", 10, 0)>>

UnparsableDate == <<Word("TBD")>>

\* The block of the end-to-end scenario, with attendees and categories.
BlockA ==
    VEventBlock(<<FieldLine("SUMMARY", "", <<Word("Test"), Word("Event")>>),
                  FieldLine("LOCATION", "", <<Word("Test"), Word("Park")>>),
                  FieldLine("DTSTART", "", ParsableDateTime),
                  FieldLine("ATTENDEE", "", <<Word("ann")>>),
                  FieldLine("CATEGORIES", "", <<Word("Hike")>>),
                  FieldLine("ATTENDEE", ";ROLE=CHAIR", <<Word("bob")>>),
                  FieldLine("CATEGORIES", "", <<Word("Fun")>>)>>)

\* Repeated single-valued keys, dates no parser reads, a line without key.
BlockB ==
    VEventBlock(<<FieldLine("SUMMARY", "", <<Word("First")>>),
                  FieldLine("SUMMARY", "", <<Word("Second")>>),
                  OtherLine(<<Word("see"), Word("below")>>),
                  FieldLine("DTSTART", ";TZID=UTC", UnparsableDate),
                  FieldLine("DTEND", "", UnparsableDate),
                  FieldLine("DTSTART", "", ParsableDate),
                  FieldLine("URL", "", <<Word("https://example.com/b")>>),
                  FieldLine("SEQUENCE", "", <<Number("2", 2)>>)>>)

\* Time stamps no parser reads.
BlockC ==
    VEventBlock(<<FieldLine("UID", "", <<Word("c-1")>>),
                  FieldLine("DTSTAMP", "", UnparsableDate),
                  FieldLine("CREATED", "", ParsableDate),
                  FieldLine("RDATE", "", ParsableDate),
                  FieldLine("RDATE", "", UnparsableDate),
                  FieldLine("EXDATE", "", ParsableDate)>>)

\* Time stamps the parser reads.
BlockD ==
    VEventBlock(<<FieldLine("DTSTAMP", "", ParsableDateTime),
                  FieldLine("LAST-MODIFIED", "", ParsableDate),
                  FieldLine("DTEND", "", ParsableDate),
                  FieldLine("SEQUENCE", "", <<Word("two")>>)>>)

EmptyBlock == VEventBlock(<<>>)

TextItems ==
    {BlockA, BlockB, BlockC, BlockD, EmptyBlock,
     TextLine(<<Word("Fun"), Word("Hike")>>),
     TextLine(<<MonthName("January", 1), Number("10,", 10),
                Number("2026", 2026), ClockTime("10:00 AM", 10, 0)>>),
     TextLine(<<MonthName("March", 3), Number("40", 40)>>),
     TextLine(<<Word("on"), IsoDate("2026-02-30", 2026, 2, 30)>>),
     TextLine(<<>>)}

VEventInputs ==
    {[text |-> t, page_url |-> u] :
        t \in UNION {[1..n -> TextItems] : n \in 0..MaxItems},
        u \in {Some("https://example.com/page")}}

SpecVEventInit ==
    /\ f_in \in VEventInputs
    /\ f_now = StartTime
    /\ f_out = NotCalled
    /\ RepoIdle /\ GateIdle /\ ClientIdle /\ TasksIdle /\ PipeIdle

CallExtractEvents ==
    /\ f_out = NotCalled
    /\ f_out' = Returned(extract_events_of_text(f_in.text, f_in.page_url,
                                                f_now))
    /\ UNCHANGED <<f_in, f_now>>

SpecVEventNext ==
    CallExtractEvents
    /\ UNCHANGED <<repoVars, gateVars, clientVars, taskVars, pipeVars>>

SpecVEvent == SpecVEventInit /\ [][SpecVEventNext]_vars

----------------------------------------------------------------------------
(* Claims about the embedded blocks *)

ExtractCalled == f_out.status = "returned" /\ f_in # None

\* The items of the text that are blocks, by position.
BlockPositions(items) == Sorted({i \in 1..Len(items) : IsBlock(items[i])})

\* The texts of the values of key k in a block, by position.
ValuesOfKey(fields, k) ==
    LET at == Sorted({i \in 1..Len(fields) : fields[i].key = k})
    IN [n \in 1..Len(at) |-> JoinTokens(fields[at[n]].val)]

FirstOfKey(fields, k) ==
    IF ValuesOfKey(fields, k) = <<>> THEN None
    ELSE Some(ValuesOfKey(fields, k)[1])

\* One candidate per block, in text order, and none from a date line.
OneCandidatePerBlock(items, out) ==
    LET at == BlockPositions(items)
    IN /\ Len(out) = Len(at)
       /\ \A n \in 1..Len(at) :
              out[n].raw = Some(BlockText(items[at[n]].fields))

\* Repeated keys accumulate in order; single-valued fields take the first.
ValuesCollected(fields, e) ==
    /\ e.attendees = ValuesOfKey(fields, "ATTENDEE")
    /\ e.categories = ValuesOfKey(fields, "CATEGORIES")
    /\ e.rdate = ValuesOfKey(fields, "RDATE")
    /\ e.exdate = ValuesOfKey(fields, "EXDATE")
    /\ e.summary = FirstOfKey(fields, "SUMMARY")
    /\ e.location = FirstOfKey(fields, "LOCATION")
    /\ e.uid = FirstOfKey(fields, "UID")

\* A date-valued field with a value the parser does not read holds the raw
\* value; one the parser reads holds an ISO text.
KeepsRawOrParsed(fields, k, got, today) ==
    LET at == Sorted({i \in 1..Len(fields) : fields[i].key = k})
    IN IF at = <<>> THEN IsNone(got)
       ELSE LET val == fields[at[1]].val
                r == DateutilParse(val, today)
            IN IF val # <<>> /\ r.ok THEN got = Some(r.iso)
               ELSE got = Some(JoinTokens(val))

StartAndEndKeepRaw(fields, e, today) ==
    /\ KeepsRawOrParsed(fields, "DTSTART", e.dtstart, today)
    /\ KeepsRawOrParsed(fields, "DTEND", e.dtend, today)

StampsKeepRaw(fields, e, today) ==
    /\ KeepsRawOrParsed(fields, "DTSTAMP", e.dtstamp, today)
    /\ KeepsRawOrParsed(fields, "CREATED", e.created, today)
    /\ KeepsRawOrParsed(fields, "LAST-MODIFIED", e.last_modified, today)

\* C23: with at least one embedded block, extraction returns one candidate
\* per block in text order and scans no date line; repeated keys keep all
\* their values in order, single-valued fields take the first occurrence,
\* and a date-valued field that cannot be parsed keeps its raw string.
C23_BlocksParsedWithRawFallback ==
    (ExtractCalled /\ BlockPositions(f_in.text) # <<>>) =>
        LET at == BlockPositions(f_in.text)
        IN /\ OneCandidatePerBlock(f_in.text, f_out.value)
           /\ \A n \in 1..Len(at) :
                  LET fields == f_in.text[at[n]].fields
                      e == f_out.value[n]
                  IN /\ ValuesCollected(fields, e)
                     /\ StartAndEndKeepRaw(fields, e, f_now)
                     /\ StampsKeepRaw(fields, e, f_now)

----------------------------------------------------------------------------
(* Claims about the date-line scan *)

NoBlock(items) == BlockPositions(items) = <<>>

\* The non-empty lines of a text, by position.
NonEmptyPositions(items) ==
    Sorted({i \in 1..Len(items) : IsTextLine(items[i]) /\ items[i].toks # <<>>})

HasDate(toks) == \E i \in 1..Len(toks) : toks[i].k \in {"iso", "month"}

\* The first date and the first clock time of a line: the matched substring.
MatchedTokens(toks) ==
    LET d == CHOOSE i \in 1..Len(toks) :
                 /\ toks[i].k \in {"iso", "month"}
                 /\ \A j \in 1..(i - 1) : toks[j].k \notin {"iso", "month"}
        ts == {i \in 1..Len(toks) : toks[i].k = "time"}
    IN IF ts = {} THEN <<toks[d]>>
       ELSE <<toks[d], toks[CHOOSE i \in ts : \A j \in ts : i <= j]>>

\* The start the claim names for a date line.
ClaimedStart(toks, today) ==
    LET sub == DateutilParse(MatchedTokens(toks), today)
        whole == DateutilParse(toks, today)
    IN IF sub.ok THEN sub.iso
       ELSE IF whole.ok THEN whole.iso
       ELSE JoinTokens(MatchedTokens(toks))

\* The candidate e is the one the claim names for the m-th non-empty line.
IsDateLineCandidate(items, ne, m, e, page_url, today) ==
    LET following == {k \in (m + 1)..(m + 3) : k <= Len(ne)}
    IN /\ e.raw = Some(JoinTokens(items[ne[m]].toks))
       /\ e.title = IF m = 1 THEN None
                    ELSE Some(JoinTokens(items[ne[m - 1]].toks))
       /\ e.description =
              IF following = {} THEN None
              ELSE Some(JoinLines([k \in 1..Cardinality(following) |->
                                      items[ne[m + k]].toks]))
       /\ e.url = page_url
       /\ e.dtstart = Some(ClaimedStart(items[ne[m]].toks, today))

----------------------------------------------------------------------------
(* The candidates of the three strategies on their way to the validity
   check and the fingerprint: extract_and_save hands the object the
   extractor returned to is_valid_event and to upsert_event_by_hash, which
   computes the fingerprint, without touching it in between. *)

\* Decoded replies with and without a summary and a start.
CandidateData ==
    {NoData, SampleData,
     [NoData EXCEPT !.summary = Some("Fun Hike")],
     [NoData EXCEPT !.dtstart = Some("2026-01-10"),
                    !.description = Some("Join us for a hike")]}

CandidateResponses ==
    ExtractResponses \cup {HttpOk(<<"{", "m", "}">>, data) : data \in CandidateData}

SpecCandidatesInit ==
    /\ \/ f_in \in VEventInputs /\ x_resp = HttpFailure("timeout")
       \/ f_in = None /\ x_resp \in CandidateResponses
    /\ f_now = StartTime
    /\ f_out = NotCalled
    /\ x_result = NotCalled
    /\ c_resp = HttpFailure("timeout") /\ c_result = NotCalled
    /\ RepoIdle /\ GateIdle /\ TasksIdle /\ PipeIdle

\* The heuristic strategy on a text.
ExtractHeuristic ==
    /\ f_in # None
    /\ CallExtractEvents
    /\ UNCHANGED <<repoVars, gateVars, clientVars, taskVars, pipeVars>>

\* The model-backed strategy on a reply.
ExtractModel ==
    /\ f_in = None
    /\ x_result = NotCalled
    /\ CallChatPageExtract
    /\ UNCHANGED <<repoVars, gateVars, taskVars, pipeVars, fnVars>>

\* The candidates the strategies have returned.
Produced ==
    (IF f_out.status = "returned"
     THEN {f_out.value[n] : n \in 1..Len(f_out.value)} ELSE {})
    \cup (IF x_result.status = "returned" /\ ~IsNone(x_result.value)
          THEN {Val(x_result.value)} ELSE {})

\* extract_and_save, lines 44-48: the candidate goes to the validity check
\* and, through upsert_event_by_hash, to the fingerprint.
HandToGate ==
    /\ IsNone(g_ev1)
    /\ \E c \in Produced :
           /\ g_ev1' = Some(c)
           /\ g_valid' = Some(categorizer_is_valid_event(Some(c)))
           /\ g_h1' = Some(_compute_hash(c))
    /\ UNCHANGED <<g_ev2, g_h1b, g_h2>>
    /\ UNCHANGED <<repoVars, clientVars, taskVars, pipeVars, fnVars>>

SpecCandidatesNext ==
    \/ ExtractHeuristic
    \/ ExtractModel
    \/ HandToGate

SpecCandidates == SpecCandidatesInit /\ [][SpecCandidatesNext]_vars

\* C25: every candidate of the three strategies (model-backed, embedded
\* block, date-line scan) has title = summary and start = dtstart when it
\* reaches the validity check and the fingerprint.
C25_AliasesMirrorFields ==
    ~IsNone(g_ev1) =>
        /\ Val(g_ev1).title = Val(g_ev1).summary
        /\ Val(g_ev1).start = Val(g_ev1).dtstart

\* The candidate of a block whose start no parser reads has reached the
\* validity check and the fingerprint with the raw start in both fields.
C25_Witness ==
    /\ ~IsNone(g_ev1) /\ ~IsNone(g_valid) /\ ~IsNone(g_h1)
    /\ Val(g_ev1).title = Some("First")
    /\ Val(g_ev1).start = Some("TBD")
    /\ Val(g_ev1).dtstart = Some("TBD")

----------------------------------------------------------------------------
(* The model-backed strategy on replies whose dtstart, dtend and rrule are
   JSON values: null, a string or an object (a field-set). The decoded
   object may hold a url of its own. *)

DailyRule ==
    PyDict([freq |-> Some(<<"D", "A", "I", "L", "Y">>), interval |-> Some(1),
            count |-> None, until |-> None])

ReplyRrules ==
    {None, Some(DailyRule),
     Some(PyDict([freq |-> Some(<<"W", "E", "E", "K", "L", "Y">>),
                  interval |-> None, count |-> None, until |-> None])),
     Some(PyDict([freq |-> Some(<<"D", "A", "I", "L", "Y">>),
                  interval |-> Some(1), count |-> Some(MaxCount),
                  until |-> None])),
     Some(PyDict([freq |-> Some(<<"M", "O", "N", "T", "H", "L", "Y">>),
                  interval |-> Some(1), count |-> None, until |-> None])),
     Some(PyStr("FREQ=DAILY;COUNT=3"))}

ReplyDates ==
    {None, Some(PyStr(DateChars(StartYear, 2, 14))),
     Some(PyDict([year |-> Some(PyInt(StartYear)), month |-> Some(PyInt(2)),
                  day |-> Some(PyInt(14)), hour |-> None, minute |-> None,
                  second |-> None]))}

ReplyData ==
    {[summary |-> Some("Fun Hike"), description |-> None, dtstart |-> ds,
      dtend |-> de, duration |-> None, location |-> Some("Sippo Lake Park"),
      rrule |-> rr, categories |-> <<>>, url |-> u] :
        ds \in ReplyDates, de \in ReplyDates, rr \in ReplyRrules,
        u \in {None, Some("https://elsewhere.example/event")}}

ReplyContents == {<<"{", "m", "}">>, <<"x", "{", "m", ",", "m", "}", "x">>}

NormalizerResponses ==
    HttpFailures \cup {HttpOk(c, data) : c \in ReplyContents, data \in ReplyData}

SpecReplyInit ==
    /\ x_resp \in NormalizerResponses
    /\ x_result = NotCalled
    /\ c_resp = HttpFailure("timeout") /\ c_result = NotCalled
    /\ RepoIdle /\ GateIdle /\ TasksIdle /\ PipeIdle /\ FnIdle

SpecReplyNext ==
    CallChatPageExtract
    /\ UNCHANGED <<repoVars, gateVars, taskVars, pipeVars, fnVars>>

SpecReply == SpecReplyInit /\ [][SpecReplyNext]_vars

ReplyCandidate == x_result.status = "returned" /\ ~IsNone(x_result.value)

\* The value is no raw field-set.
NoFieldSet(o) == IsNone(o) \/ Val(o).t # "dict"

\* The rule is none where the hallucination filter discards the reply's.
RuleSanitized(reply, got) ==
    (~IsNone(reply) /\ IsNone(format_rrule(Val(reply)))) => IsNone(got)

\* C26: in the model-backed strategy dtstart and dtend pass through
\* format_date and rrule through format_rrule before the candidate is
\* built: no candidate carries a raw field-set or a rule the hallucination
\* filter discards, and its url is the page's own whatever the reply held.
C26_ReplyNormalizedBeforeCandidate ==
    ReplyCandidate =>
        LET c == Val(x_result.value)
        IN /\ NoFieldSet(c.dtstart)
           /\ NoFieldSet(c.dtend)
           /\ NoFieldSet(c.rrule)
           /\ RuleSanitized(x_resp.data.rrule, c.rrule)
           /\ c.url = SamplePage.page_url

----------------------------------------------------------------------------
(* upsert_event_by_hash called from several places at once. Each call runs
   in a session of its own (get_session): the select reads the committed
   rows, and the row the call adds or changes reaches the table when its
   session commits. The events table has no unique constraint on
   (page_id, content_hash), so a commit never fails on a duplicate. *)

\* Lines 122-130: the call is entered and its select runs.
SessionLookup(s) ==
    /\ sessions[s].pc = "idle"
    /\ \E event \in RepoCandidates, page_id \in PageIds :
           LET found == Matching(events, page_id, _compute_hash(event))
           IN \/ /\ found = {}
                 /\ sessions' = [sessions EXCEPT ![s] =
                        [pc |-> "looked", event |-> event,
                         page_id |-> page_id, existing |-> None, ret |-> 0]]
              \/ \E existing \in found :
                     /\ IsFirst(existing, events, page_id,
                                _compute_hash(event))
                     /\ sessions' = [sessions EXCEPT ![s] =
                            [pc |-> "looked", event |-> event,
                             page_id |-> page_id,
                             existing |-> Some(existing.event_id),
                             ret |-> 0]]
    /\ UNCHANGED <<events, next_event_id, now, op>>

\* Lines 132-146: the update of the row found, or the insert of a new row,
\* and the commit.
SessionCommit(s) ==
    LET call == sessions[s]
        db_event == _domain_to_db(call.event, call.page_id, None)
    IN /\ call.pc = "looked"
       /\ IF ~IsNone(call.existing)
          THEN \E existing \in events :
                  /\ existing.event_id = Val(call.existing)
                  /\ events' = (events \ {existing})
                                   \cup {UpdatedRow(existing, db_event, now)}
                  /\ next_event_id' = next_event_id
                  /\ sessions' = [sessions EXCEPT ![s].pc = "done",
                                                  ![s].ret = existing.event_id]
          ELSE /\ events' = events \cup {NewRow(db_event, next_event_id, now)}
               /\ next_event_id' = next_event_id + 1
               /\ sessions' = [sessions EXCEPT ![s].pc = "done",
                                               ![s].ret = next_event_id]
       /\ UNCHANGED <<now, op>>

SpecSessionsInit ==
    RepoIdle /\ GateIdle /\ ClientIdle /\ TasksIdle /\ PipeIdle /\ FnIdle

SpecSessionsNext ==
    \/ \E s \in Sessions : SessionLookup(s)
          /\ UNCHANGED <<gateVars, clientVars, taskVars, pipeVars, fnVars>>
    \/ \E s \in Sessions : SessionCommit(s)
          /\ UNCHANGED <<gateVars, clientVars, taskVars, pipeVars, fnVars>>

SpecSessions == SpecSessionsInit /\ [][SpecSessionsNext]_vars

\* Two calls for the same page and the same fingerprint have returned.
SameUpsertTwice(s1, s2) ==
    /\ s1 # s2
    /\ sessions[s1].pc = "done" /\ sessions[s2].pc = "done"
    /\ sessions[s1].page_id = sessions[s2].page_id
    /\ _compute_hash(sessions[s1].event) = _compute_hash(sessions[s2].event)

\* C27: two concurrent upsert calls for the same page and fingerprint, each
\* in a session of its own, leave exactly one record for that page and
\* fingerprint under every interleaving, and both return the same id.
C27_ConcurrentUpsertsLeaveOneRecord ==
    \A s1, s2 \in Sessions :
        SameUpsertTwice(s1, s2) =>
            /\ Cardinality(Matching(events, sessions[s1].page_id,
                                    _compute_hash(sessions[s1].event))) = 1
            /\ sessions[s1].ret = sessions[s2].ret

----------------------------------------------------------------------------
(* The admitting gate and the stored is_valid flag *)

\* C28: every event extract_and_save persists is stored with is_valid =
\* true: the gate that admits a candidate and the flag the repository
\* computes for the stored record agree on every candidate.
C28_PersistedEventsAreValid ==
    /\ \A r \in events : r.is_valid
    /\ (saved.status = "returned" /\ ~IsNone(saved.value)) =>
           _is_valid_event(saved.value)

----------------------------------------------------------------------------
(* The fingerprint on candidates whose fields hold the separator or the
   text "None" *)

FingerprintCandidates ==
    {[Event EXCEPT !.title = t, !.start = st, !.dtstart = ds,
                   !.location = loc, !.url = Some("https://example.com")] :
        t \in {None, Some("None"), Some("a"), Some("a|b")},
        st \in {None, Some("None"), Some("b|c"), Some("c")},
        ds \in {None, Some("c")},
        loc \in {None, Some("None")}}

SpecFingerprintInit ==
    /\ g_ev1 \in {Some(e) : e \in FingerprintCandidates}
    /\ g_ev2 \in {Some(e) : e \in FingerprintCandidates}
    /\ g_valid = None /\ g_h1 = None /\ g_h1b = None /\ g_h2 = None
    /\ RepoIdle /\ ClientIdle /\ TasksIdle /\ PipeIdle /\ FnIdle

SpecFingerprintNext ==
    \/ CallComputeHash
          /\ UNCHANGED <<repoVars, clientVars, taskVars, pipeVars, fnVars>>
    \/ CallComputeHashOther
          /\ UNCHANGED <<repoVars, clientVars, taskVars, pipeVars, fnVars>>

SpecFingerprint == SpecFingerprintInit /\ [][SpecFingerprintNext]_vars

\* The ordered tuple the fingerprint is computed over.
FingerprintTuple(e) ==
    <<e.title, e.start, e.dtstart, e.summary, e.location, e.url>>

\* C29: the fingerprint is injective on its tuple up to digest collisions:
\* candidates whose tuples (title, start, dtstart, summary, location, url)
\* differ in any position have different content strings, also when a
\* field holds the separator '|' and when one field is absent while the
\* other holds the text "None".
C29_FingerprintInjectiveOnTuple ==
    (/\ ~IsNone(g_h1) /\ ~IsNone(g_h2)
     /\ FingerprintTuple(Val(g_ev1)) # FingerprintTuple(Val(g_ev2)))
        => Val(g_h1) # Val(g_h2)

----------------------------------------------------------------------------
(* The frame of an upsert *)

\* The rows a step took out of the table and the rows it put in; a row
\* that was modified is in both, under its old and its new value.
RowsGone == events \ events'

RowsCome == events' \ events

UpsertTouchesOneRowOfItsPage ==
    UpsertStep =>
        /\ Cardinality(RowsGone) <= 1
        /\ Cardinality(RowsCome) <= 1
        /\ \A r \in RowsGone \cup RowsCome : r.page_id = op'.page_id
        /\ \A r \in RowsGone : \E n \in RowsCome : n.event_id = r.event_id
        /\ \A r \in events : r.page_id # op'.page_id => r \in events'
        /\ Cardinality(events') >= Cardinality(events)

\* C30: an upsert creates or modifies at most one record, and only one of
\* the given page; every other record, also one with the same fingerprint
\* on a different page, is left unchanged, and no upsert removes a record.
C30_UpsertFrame == [][UpsertTouchesOneRowOfItsPage]_vars

\* An upsert for page 2 has just inserted a row whose fingerprint a row of
\* page 1 already carries.
C30_Witness ==
    /\ op.name = "upsert"
    /\ op.page_id = 2
    /\ \E r1, r2 \in events :
          /\ r1.page_id = 1 /\ r2.page_id = 2
          /\ r1.content_hash = r2.content_hash
          /\ r2.event_id = op.ret
          /\ r1.event_id < r2.event_id

====
